---------------------------- MODULE Spec2Model ----------------------------
(***************************************************************************)
(* A model of the JWW decoder of crates/jww-core: the byte reader          *)
(* (reader.rs), the document header decoder, the entity-list locator and   *)
(* the class-interning entity decoder (lib.rs), and the DXF converter of   *)
(* crates/jww-dxf (converter.rs).                                          *)
(*                                                                         *)
(* Bytes are integers 0..255, a buffer is a sequence of bytes, u16/u32     *)
(* values are integers, an f64 is its 8-byte little-endian bit pattern, a  *)
(* text (Rust String) is the sequence of its code points.                  *)
(***************************************************************************)
EXTENDS Integers, Sequences, FiniteSets, TLC

VARIABLES
    pc,            \* position of the parse call: idle, header, matrix, locate,
                   \* list, records, assemble, done
    data,          \* the input buffer of the running call (parse's `data`)
    reader,        \* the header cursor (lib.rs:35)
    version, memo, paper_size, write_layer_group,   \* header locals of parse
    layer_groups,  \* the 16 x 16 layer matrix local of parse
    reader2,       \* the entity cursor (lib.rs:83)
    count,         \* parse_entity_list's count
    done_records,  \* iterations of the loop of parse_entity_list finished
    entities,      \* parse_entity_list's output vector
    pid_to_class,  \* the class-interning table
    next_pid,      \* the next pid slot
    result,        \* what parse returned: none, Err(e) or Ok(document)
    allocs,        \* history: buffers allocated from a length read off the wire
    processed,     \* history: class_id and outcome of every record handled
    reads,         \* history: the typed reads made of a cursor on its own
    returned,      \* history: the buffer and the result of every call that returned
    parked,        \* the locals of the parse call of the thread that is not running
    dxf            \* what convert_document returned for the parsed document

vars == <<pc, data, reader, version, memo, paper_size, write_layer_group,
          layer_groups, reader2, count, done_records, entities, pid_to_class,
          next_pid, result, allocs, processed, reads, returned, parked, dxf>>

-----------------------------------------------------------------------------
(* Sequence helpers *)

RECURSIVE Flatten(_)
Flatten(ss) == IF ss = <<>> THEN <<>> ELSE Head(ss) \o Flatten(Tail(ss))

\* n copies of s, one after the other
Repeat(s, n) == [i \in 1 .. n * Len(s) |-> s[((i - 1) % Len(s)) + 1]]

Take(s, n) == SubSeq(s, 1, IF n < Len(s) THEN n ELSE Len(s))

StartsWith(s, prefix) ==
    Len(s) >= Len(prefix) /\ SubSeq(s, 1, Len(prefix)) = prefix

\* all sequences over S of length 0..n
RECURSIVE SeqsUpTo(_, _)
SeqsUpTo(S, n) ==
    IF n <= 0 THEN {<<>>}
    ELSE LET shorter == SeqsUpTo(S, n - 1)
         IN  shorter \cup {Append(s, x) : s \in {t \in shorter : Len(t) = n - 1}, x \in S}

-----------------------------------------------------------------------------
(* Little-endian encodings, used to lay out input buffers *)

U16(v) == <<v % 256, (v \div 256) % 256>>
U32(v) == <<v % 256, (v \div 256) % 256, (v \div 65536) % 256, (v \div 16777216) % 256>>

\* bit patterns of the doubles the inputs use
F64_0   == <<0, 0, 0, 0, 0, 0, 0, 0>>
F64_1   == <<0, 0, 0, 0, 0, 0, 240, 63>>
F64_50  == <<0, 0, 0, 0, 0, 0, 73, 64>>
F64_100 == <<0, 0, 0, 0, 0, 0, 89, 64>>

-----------------------------------------------------------------------------
(* Text decoding done by the libraries the reader calls *)

REPLACEMENT == 65533

\* one scalar value decoded at position p of b: [cp, used]
Utf8Cont(b, q, lo, hi) == q <= Len(b) /\ b[q] >= lo /\ b[q] <= hi

Utf8Step(b, p) ==
    LET b0   == b[p]
        need == IF b0 <= 127 THEN 0
                ELSE IF b0 >= 194 /\ b0 <= 223 THEN 1
                ELSE IF b0 >= 224 /\ b0 <= 239 THEN 2
                ELSE IF b0 >= 240 /\ b0 <= 244 THEN 3
                ELSE -1
        lo1  == IF b0 = 224 THEN 160 ELSE IF b0 = 240 THEN 144 ELSE 128
        hi1  == IF b0 = 237 THEN 159 ELSE IF b0 = 244 THEN 143 ELSE 191
        k    == IF need <= 0 THEN 0
                ELSE IF ~Utf8Cont(b, p + 1, lo1, hi1) THEN 0
                ELSE IF need = 1 THEN 1
                ELSE IF ~Utf8Cont(b, p + 2, 128, 191) THEN 1
                ELSE IF need = 2 THEN 2
                ELSE IF ~Utf8Cont(b, p + 3, 128, 191) THEN 2
                ELSE 3
    IN  IF need = 0 THEN [cp |-> b0, used |-> 1]
        ELSE IF need = -1 \/ k < need THEN [cp |-> REPLACEMENT, used |-> 1 + k]
        ELSE IF need = 1 THEN
            [cp |-> (b0 - 192) * 64 + (b[p + 1] - 128), used |-> 2]
        ELSE IF need = 2 THEN
            [cp |-> (b0 - 224) * 4096 + (b[p + 1] - 128) * 64 + (b[p + 2] - 128),
             used |-> 3]
        ELSE
            [cp |-> (b0 - 240) * 262144 + (b[p + 1] - 128) * 4096
                      + (b[p + 2] - 128) * 64 + (b[p + 3] - 128),
             used |-> 4]

\* a decoder is the repetition of its step from position p to the end of b.
\* DecodeN does at most n steps, the first half of them and then the rest.
RECURSIVE DecodeN(_, _, _, _)
DecodeN(Step(_, _), b, p, n) ==
    IF n <= 0 \/ p > Len(b) THEN [text |-> <<>>, p |-> p]
    ELSE IF n = 1 THEN LET s == Step(b, p) IN [text |-> <<s.cp>>, p |-> p + s.used]
    ELSE LET first == DecodeN(Step, b, p, n \div 2)
             rest  == DecodeN(Step, b, first.p, n - (n \div 2))
         IN  [text |-> first.text \o rest.text, p |-> rest.p]

DecodeFrom(Step(_, _), b, p) == DecodeN(Step, b, p, Len(b)).text

Utf8From(b, p) == DecodeFrom(Utf8Step, b, p)

\* String::from_utf8_lossy: invalid sequences become U+FFFD
from_utf8_lossy(b) == Utf8From(b, 1)

\* the JIS X 0208 index of the Shift_JIS decoder.  The katakana row (lead
\* byte 0x83) and the user-defined range are tabulated; any other pointer is
\* stood for by a value outside Unicode, one per pointer.
Jis0208(pointer) ==
    IF pointer >= 8836 /\ pointer <= 10715 THEN 57344 - 8836 + pointer
    ELSE IF pointer >= 376 /\ pointer <= 461 THEN 12449 + (pointer - 376)
    ELSE 2097152 + pointer

IsSjisLead(x) == (x >= 129 /\ x <= 159) \/ (x >= 224 /\ x <= 252)

IsSjisTrail(x) == (x >= 64 /\ x <= 126) \/ (x >= 128 /\ x <= 252)

\* one character decoded at position p of b: [cp, used]
SjisStep(b, p) ==
    LET b0 == b[p] IN
    IF b0 <= 128 THEN [cp |-> b0, used |-> 1]
    ELSE IF b0 >= 161 /\ b0 <= 223 THEN [cp |-> 65377 - 161 + b0, used |-> 1]
    ELSE IF IsSjisLead(b0) THEN
        IF p = Len(b) THEN [cp |-> REPLACEMENT, used |-> 1]
        ELSE LET b1      == b[p + 1]
                 pointer == (b0 - (IF b0 < 160 THEN 129 ELSE 193)) * 188
                            + b1 - (IF b1 < 127 THEN 64 ELSE 65)
             IN  IF IsSjisTrail(b1) THEN [cp |-> Jis0208(pointer), used |-> 2]
                 ELSE IF b1 <= 127 THEN [cp |-> REPLACEMENT, used |-> 1]
                 ELSE [cp |-> REPLACEMENT, used |-> 2]
    ELSE [cp |-> REPLACEMENT, used |-> 1]

SjisFrom(b, p) == DecodeFrom(SjisStep, b, p)

IsHighSurrogate(u) == u >= 55296 /\ u <= 56319
IsLowSurrogate(u)  == u >= 56320 /\ u <= 57343

Utf16Unit(b, q, be) == IF be THEN b[q] * 256 + b[q + 1] ELSE b[q] + 256 * b[q + 1]

Utf16Step(b, p, be) ==
    IF p = Len(b) THEN [cp |-> REPLACEMENT, used |-> 1]
    ELSE LET u == Utf16Unit(b, p, be) IN
         IF IsHighSurrogate(u) THEN
             IF p + 3 <= Len(b) /\ IsLowSurrogate(Utf16Unit(b, p + 2, be))
             THEN [cp |-> 65536 + (u - 55296) * 1024
                            + (Utf16Unit(b, p + 2, be) - 56320),
                   used |-> 4]
             ELSE [cp |-> REPLACEMENT, used |-> 2]
         ELSE IF IsLowSurrogate(u) THEN [cp |-> REPLACEMENT, used |-> 2]
         ELSE [cp |-> u, used |-> 2]

Utf16LeStep(b, p) == Utf16Step(b, p, FALSE)
Utf16BeStep(b, p) == Utf16Step(b, p, TRUE)

\* encoding_rs::SHIFT_JIS.decode: a byte order mark selects UTF-8 or UTF-16
\* and is removed, otherwise the bytes are Shift_JIS; it never fails.
SHIFT_JIS_decode(buf) ==
    IF StartsWith(buf, <<239, 187, 191>>) THEN Utf8From(buf, 4)
    ELSE IF StartsWith(buf, <<255, 254>>) THEN DecodeFrom(Utf16LeStep, buf, 3)
    ELSE IF StartsWith(buf, <<254, 255>>) THEN DecodeFrom(Utf16BeStep, buf, 3)
    ELSE SjisFrom(buf, 1)

NUL == 0

\* a trim that removes one trailing NUL at most
trim_end_one_mut(t) ==
    IF t # <<>> /\ t[Len(t)] = NUL THEN SubSeq(t, 1, Len(t) - 1) ELSE t

\* str::trim_end_matches('\0'): every trailing NUL is removed
trim_end_matches_nul(t) ==
    LET keep == {i \in 1 .. Len(t) : t[i] # NUL}
    IN  IF keep = {} THEN <<>>
        ELSE SubSeq(t, 1, CHOOSE i \in keep : \A j \in keep : j <= i)

-----------------------------------------------------------------------------
(* Errors (error.rs) and results *)

NoError           == [kind |-> "none", arg |-> <<>>]
InvalidSignature  == [kind |-> "InvalidSignature", arg |-> <<>>]
UnknownClassPid(pid)     == [kind |-> "UnknownClassPid", arg |-> <<pid>>]
UnknownEntityClass(name) == [kind |-> "UnknownEntityClass", arg |-> name]
\* a variant no code constructs
UnsupportedVersion(v)    == [kind |-> "UnsupportedVersion", arg |-> <<v>>]
\* ParseError::Io(UnexpectedEof), converted from io::Error by `?`
IoError           == [kind |-> "Io", arg |-> <<>>]
\* ParseError::Other("could not find entity list")
OtherNotFound     == [kind |-> "Other", arg |-> <<"could not find entity list">>]

-----------------------------------------------------------------------------
(* Reader (reader.rs).  A reader is [pos, bytes_read]: pos is the index in  *)
(* `data` of the next unread byte of the slice it wraps.  Every read gives *)
(* [err, val, r, allocs]; after an error the reader is not used again.     *)

Reader_new(start) == [pos |-> start, bytes_read |-> 0]

Remaining(r) == Len(data) - r.pos

ReadOk(v, r, a) == [err |-> NoError, val |-> v, r |-> r, allocs |-> a]
ReadErr(e, r, a) == [err |-> e, val |-> <<>>, r |-> r, allocs |-> a]

\* the `?` operator: the error is returned, or the code after it runs
Try(x, F(_)) == IF x.err # NoError THEN x ELSE F(x)

\* a cursor whose count of bytes read grows by one per read
Advance_mut(r, n) == [pos |-> r.pos + n, bytes_read |-> r.bytes_read + 1]

Advance(r, n) == [pos |-> r.pos + n, bytes_read |-> r.bytes_read + n]

\* Read::read_exact on a slice: all n bytes or UnexpectedEof
read_exact(r, n) ==
    IF Remaining(r) >= n
    THEN ReadOk(SubSeq(data, r.pos + 1, r.pos + n), Advance(r, n), <<>>)
    ELSE ReadErr(IoError, r, <<>>)

read_byte(r) ==
    Try(read_exact(r, 1), LAMBDA x : ReadOk(x.val[1], x.r, <<>>))

read_word(r) ==
    Try(read_exact(r, 2), LAMBDA x : ReadOk(x.val[1] + 256 * x.val[2], x.r, <<>>))

read_dword(r) ==
    Try(read_exact(r, 4),
        LAMBDA x : ReadOk(x.val[1] + 256 * x.val[2] + 65536 * x.val[3]
                              + 16777216 * x.val[4], x.r, <<>>))

read_double(r) ==
    Try(read_exact(r, 8), LAMBDA x : ReadOk(x.val, x.r, <<>>))

\* a buffer of `size` elements (bytes, or entities for Vec::with_capacity)
\* allocated while `remaining` bytes were unread
Alloc(site, size, remaining) == [site |-> site, size |-> size, remaining |-> remaining]

\* vec![0u8; n] followed by read_exact(&mut buf): the buffer exists before
\* the read is tried
alloc_then_read(site, r, n) ==
    [read_exact(r, n) EXCEPT !.allocs = <<Alloc(site, n, Remaining(r))>>]

\* Reader::skip: a buffer of n bytes is filled and dropped
skip(r, n) == Try(alloc_then_read("skip", r, n), LAMBDA x : ReadOk(<<>>, x.r, x.allocs))

\* the slice under a reader whose read fell short: left as it was, or
\* emptied, as the build's standard library has it; bytes_read is not touched
after_short_read(r) == {r, [r EXCEPT !.pos = Len(data)]}

\* the length prefix of read_cstring with the marker byte 0xFF taken as a
\* length
cstring_length_mut(r) ==
    Try(read_byte(r),
        LAMBDA b : IF b.val <= 255 THEN b
                   ELSE Try(read_word(b.r),
                            LAMBDA w : IF w.val < 65535 THEN w ELSE read_dword(w.r)))

\* the length prefix of read_cstring: [err, val (the length), r]
cstring_length(r) ==
    Try(read_byte(r),
        LAMBDA b : IF b.val < 255 THEN b
                   ELSE Try(read_word(b.r),
                            LAMBDA w : IF w.val < 65535 THEN w ELSE read_dword(w.r)))

read_cstring(r) ==
    Try(cstring_length(r),
        LAMBDA len :
            IF len.val = 0 THEN ReadOk(<<>>, len.r, <<>>)
            ELSE Try(alloc_then_read("cstring", len.r, len.val),
                     LAMBDA x : ReadOk(trim_end_matches_nul(SHIFT_JIS_decode(x.val)),
                                       x.r, x.allocs)))

\* a run of reads, each followed by `?`: the values in order, or the first error
ReadField(r, type) ==
    CASE type = "byte"   -> read_byte(r)
      [] type = "word"   -> read_word(r)
      [] type = "dword"  -> read_dword(r)
      [] type = "double" -> read_double(r)
      [] type = "string" -> read_cstring(r)

RECURSIVE ReadFieldsFrom(_, _, _, _)
ReadFieldsNext(x, types, vals, allocd) ==
    IF x.err # NoError THEN ReadErr(x.err, x.r, allocd \o x.allocs)
    ELSE ReadFieldsFrom(x.r, types, Append(vals, x.val), allocd \o x.allocs)

ReadFieldsFrom(r, types, vals, allocd) ==
    IF types = <<>> THEN ReadOk(vals, r, allocd)
    ELSE ReadFieldsNext(ReadField(r, Head(types)), Tail(types), vals, allocd)

ReadFields(r, types) == ReadFieldsFrom(r, types, <<>>, <<>>)

-----------------------------------------------------------------------------
(* Class names, as the code points of their ASCII text *)

CData       == <<67, 68, 97, 116, 97>>
CDataSen    == CData \o <<83, 101, 110>>
CDataEnko   == CData \o <<69, 110, 107, 111>>
CDataTen    == CData \o <<84, 101, 110>>
CDataMoji   == CData \o <<77, 111, 106, 105>>
CDataSolid  == CData \o <<83, 111, 108, 105, 100>>
CDataBlock  == CData \o <<66, 108, 111, 99, 107>>
CDataSunpou == CData \o <<83, 117, 110, 112, 111, 117>>

-----------------------------------------------------------------------------
(* Entity decoders (lib.rs) *)

PenWidthVersion == 351
SunpouTailVersion == 420
PointExtraStyle == 100
SolidColorPen == 10

Doubles(n) == Repeat(<<"double">>, n)

\* the reads of parse_entity_base, in order
BaseTypes(ver) ==
    <<"dword", "byte", "word">>
        \o (IF ver >= PenWidthVersion THEN <<"word">> ELSE <<>>)
        \o <<"word", "word", "word">>

\* a base whose pen_width is the word after pen_color whatever the version
BaseOf_mut(v, ver) ==
    [group       |-> v[1],
     pen_style   |-> v[2],
     pen_color   |-> v[3],
     pen_width   |-> v[4],
     layer       |-> v[IF ver >= PenWidthVersion THEN 5 ELSE 4],
     layer_group |-> v[IF ver >= PenWidthVersion THEN 6 ELSE 5],
     flag        |-> v[IF ver >= PenWidthVersion THEN 7 ELSE 6]]

BaseOf(v, ver) ==
    [group       |-> v[1],
     pen_style   |-> v[2],
     pen_color   |-> v[3],
     pen_width   |-> IF ver >= PenWidthVersion THEN v[4] ELSE 0,
     layer       |-> v[IF ver >= PenWidthVersion THEN 5 ELSE 4],
     layer_group |-> v[IF ver >= PenWidthVersion THEN 6 ELSE 5],
     flag        |-> v[IF ver >= PenWidthVersion THEN 7 ELSE 6]]

parse_entity_base(r, ver) ==
    Try(ReadFields(r, BaseTypes(ver)),
        LAMBDA x : ReadOk(BaseOf(x.val, ver), x.r, x.allocs))

\* Some(entity) and None
Some(e) == <<e>>
None == <<>>

\* base, then the reads `types`, then Build(base, values): the shape of every
\* arm of the class-name match
BaseThen(r, ver, types, Build(_, _)) ==
    Try(parse_entity_base(r, ver),
        LAMBDA b : Try(ReadFields(b.r, types),
                       LAMBDA f : ReadOk(Build(b.val, f.val), f.r, f.allocs)))

decode_CDataSen(r, ver) ==
    BaseThen(r, ver, Doubles(4),
        LAMBDA b, v : Some([type |-> "Line", base |-> b,
                            start_x |-> v[1], start_y |-> v[2],
                            end_x |-> v[3], end_y |-> v[4]]))

decode_CDataEnko(r, ver) ==
    BaseThen(r, ver, Doubles(7) \o <<"dword">>,
        LAMBDA b, v : Some([type |-> "Arc", base |-> b,
                            center_x |-> v[1], center_y |-> v[2], radius |-> v[3],
                            start_angle |-> v[4], arc_angle |-> v[5],
                            tilt_angle |-> v[6], flatness |-> v[7],
                            is_full_circle |-> (v[8] # 0)]))

\* a point whose code, angle and scale are never read
decode_CDataTen_mut(r, ver) ==
    BaseThen(r, ver, <<"double", "double", "dword">>,
        LAMBDA b, v : Some([type |-> "Point", base |-> b, x |-> v[1], y |-> v[2],
                            is_temporary |-> (v[3] # 0),
                            code |-> 0, angle |-> F64_0, scale |-> F64_1]))

\* code, angle and scale start as 0, 0.0 and 1.0 and are read when
\* pen_style is 100
decode_CDataTen(r, ver) ==
    Try(BaseThen(r, ver, <<"double", "double", "dword">>,
            LAMBDA b, v : [type |-> "Point", base |-> b, x |-> v[1], y |-> v[2],
                           is_temporary |-> (v[3] # 0),
                           code |-> 0, angle |-> F64_0, scale |-> F64_1]),
        LAMBDA p :
            IF p.val.base.pen_style = PointExtraStyle
            THEN Try(ReadFields(p.r, <<"dword", "double", "double">>),
                     LAMBDA e : ReadOk(Some([p.val EXCEPT !.code = e.val[1],
                                                          !.angle = e.val[2],
                                                          !.scale = e.val[3]]),
                                       e.r, p.allocs))
            ELSE ReadOk(Some(p.val), p.r, p.allocs))

decode_CDataMoji(r, ver) ==
    BaseThen(r, ver, Doubles(4) \o <<"dword">> \o Doubles(4) \o <<"string", "string">>,
        LAMBDA b, v : Some([type |-> "Text", base |-> b,
                            start_x |-> v[1], start_y |-> v[2],
                            end_x |-> v[3], end_y |-> v[4], text_type |-> v[5],
                            size_x |-> v[6], size_y |-> v[7], spacing |-> v[8],
                            angle |-> v[9], font_name |-> v[10], content |-> v[11]]))

\* a solid whose corners are read in the order 1, 2, 3, 4
decode_CDataSolid_mut(r, ver) ==
    Try(BaseThen(r, ver, Doubles(8),
            LAMBDA b, v : [type |-> "Solid", base |-> b,
                           point1_x |-> v[1], point1_y |-> v[2],
                           point2_x |-> v[3], point2_y |-> v[4],
                           point3_x |-> v[5], point3_y |-> v[6],
                           point4_x |-> v[7], point4_y |-> v[8],
                           color |-> 0]),
        LAMBDA p :
            IF p.val.base.pen_color = SolidColorPen
            THEN Try(read_dword(p.r),
                     LAMBDA c : ReadOk(Some([p.val EXCEPT !.color = c.val]), c.r,
                                       p.allocs))
            ELSE ReadOk(Some(p.val), p.r, p.allocs))

\* the corners are read in the order 1, 4, 2, 3; color starts as 0 and is
\* read when pen_color is 10
decode_CDataSolid(r, ver) ==
    Try(BaseThen(r, ver, Doubles(8),
            LAMBDA b, v : [type |-> "Solid", base |-> b,
                           point1_x |-> v[1], point1_y |-> v[2],
                           point4_x |-> v[3], point4_y |-> v[4],
                           point2_x |-> v[5], point2_y |-> v[6],
                           point3_x |-> v[7], point3_y |-> v[8],
                           color |-> 0]),
        LAMBDA p :
            IF p.val.base.pen_color = SolidColorPen
            THEN Try(read_dword(p.r),
                     LAMBDA c : ReadOk(Some([p.val EXCEPT !.color = c.val]), c.r,
                                       p.allocs))
            ELSE ReadOk(Some(p.val), p.r, p.allocs))

decode_CDataBlock(r, ver) ==
    BaseThen(r, ver, Doubles(5) \o <<"dword">>,
        LAMBDA b, v : Some([type |-> "Block", base |-> b,
                            ref_x |-> v[1], ref_y |-> v[2],
                            scale_x |-> v[3], scale_y |-> v[4],
                            rotation |-> v[5], def_number |-> v[6]]))

\* a run of runs of reads: the first error, or the reader after them all
RECURSIVE ReadRunsFrom(_, _, _)
ReadRunsNext(x, runs, allocd) ==
    IF x.err # NoError THEN ReadErr(x.err, x.r, allocd \o x.allocs)
    ELSE ReadRunsFrom(x.r, runs, allocd \o x.allocs)

ReadRunsFrom(r, runs, allocd) ==
    IF runs = <<>> THEN ReadOk(<<>>, r, allocd)
    ELSE ReadRunsNext(ReadFields(r, Head(runs)), Tail(runs), allocd)

\* a dimension whose SXF data is left unread
SunpouRuns_mut(ver) ==
    <<BaseTypes(ver),
      BaseTypes(ver) \o Doubles(4),
      BaseTypes(ver) \o Doubles(4) \o <<"dword">> \o Doubles(4) \o <<"string", "string">>>>

\* the reads of the CDataSunpou arm, in order: the outer base, the line
\* member, the text member and, from version 4.20 on, the SXF data
SunpouRuns(ver) ==
    <<BaseTypes(ver),
      BaseTypes(ver) \o Doubles(4),
      BaseTypes(ver) \o Doubles(4) \o <<"dword">> \o Doubles(4) \o <<"string", "string">>>>
        \o (IF ver >= SunpouTailVersion
            THEN <<<<"word">>>>
                     \o Repeat(<<BaseTypes(ver) \o Doubles(4)>>, 2)
                     \o Repeat(<<BaseTypes(ver) \o Doubles(2) \o <<"dword">>>>, 4)
            ELSE <<>>)

\* a dimension kept as the line it is drawn with
decode_CDataSunpou_mut(r, ver) ==
    Try(ReadRunsFrom(r, SunpouRuns(ver), <<>>),
        LAMBDA x : ReadOk(Some([type |-> "Line"]), x.r, x.allocs))

decode_CDataSunpou(r, ver) ==
    Try(ReadRunsFrom(r, SunpouRuns(ver), <<>>),
        LAMBDA x : ReadOk(None, x.r, x.allocs))

\* a match whose last arm skips the record
unknown_class_mut(name, r) == ReadOk(None, r, <<>>)

\* the last arm of the match on the class name (lib.rs:374)
unknown_class(name, r) == ReadErr(UnknownEntityClass(name), r, <<>>)

\* the match on the class name (lib.rs:195-375)
dispatch(name, r, ver) ==
    CASE name = CDataSen    -> decode_CDataSen(r, ver)
      [] name = CDataEnko   -> decode_CDataEnko(r, ver)
      [] name = CDataTen    -> decode_CDataTen(r, ver)
      [] name = CDataMoji   -> decode_CDataMoji(r, ver)
      [] name = CDataSolid  -> decode_CDataSolid(r, ver)
      [] name = CDataBlock  -> decode_CDataBlock(r, ver)
      [] name = CDataSunpou -> decode_CDataSunpou(r, ver)
      [] OTHER              -> unknown_class(name, r)

-----------------------------------------------------------------------------
(* The class-interning record decoder (lib.rs:159-379) *)

NewClassTag == 65535
NullTag == 32768

\* the pid of a reference taken without masking
class_pid_of_mut(class_id) == class_id

\* class_id & 0x7FFF
class_pid_of(class_id) == class_id % 32768

\* a table that keeps only its latest binding
table_insert_mut(table, pid, name) == (pid :> name)

\* pid_to_class.insert(pid, name)
table_insert(table, pid, name) == (pid :> name) @@ table

\* a null arm that falls through to the increment at the end of the function
next_pid_after_null_mut(np) == np + 1

\* the null arm returns before the increment at the end of the function
next_pid_after_null(np) == np

\* what one call leaves behind: the read result x, the table, next_pid, and
\* the class_id and class name it saw
RecordOut(x, table, np, class_id, class_name) ==
    [err |-> x.err, val |-> x.val, r |-> x.r, allocs |-> x.allocs,
     pid_to_class |-> table, next_pid |-> np,
     class_id |-> class_id, class_name |-> class_name]

\* a decoder that leaves next_pid alone after the class-name match
after_dispatch_mut(e, name, table, np, class_id, allocd) ==
    RecordOut([e EXCEPT !.allocs = allocd \o @], table, np, class_id, name)

\* e is what the class-name match gave: its error is returned, otherwise
\* next_pid is incremented and the entity returned (lib.rs:374-378)
after_dispatch(e, name, table, np, class_id, allocd) ==
    RecordOut([e EXCEPT !.allocs = allocd \o @], table,
              IF e.err # NoError THEN np ELSE np + 1, class_id, name)

\* the arm of a new class definition once the name bytes n are read
\* (lib.rs:174-178)
new_class_named(n, class_name, ver, table, np, class_id) ==
    after_dispatch(dispatch(class_name, n.r, ver), class_name,
                   table_insert(table, np, class_name), np + 1, class_id, n.allocs)

\* the arm of a new class definition (lib.rs:168-179); h is the read of the
\* schema and name_len words
new_class_name_read(n, ver, table, np, class_id) ==
    IF n.err # NoError THEN RecordOut(n, table, np, class_id, <<>>)
    ELSE new_class_named(n, from_utf8_lossy(n.val), ver, table, np, class_id)

new_class(h, ver, table, np, class_id) ==
    IF h.err # NoError THEN RecordOut(h, table, np, class_id, <<>>)
    ELSE new_class_name_read(alloc_then_read("class_name", h.r, h.val[2]),
                             ver, table, np, class_id)

\* the arm of a class reference (lib.rs:184-191)
class_reference(r, class_pid, ver, table, np, class_id) ==
    IF class_pid \in DOMAIN table
    THEN after_dispatch(dispatch(table[class_pid], r, ver), table[class_pid],
                        table, np, class_id, <<>>)
    ELSE RecordOut(ReadErr(UnknownClassPid(class_pid), r, <<>>),
                   table, np, class_id, <<>>)

\* the match on class_id; c is the read of the class_id word
class_id_read(c, ver, table, np) ==
    IF c.err # NoError THEN RecordOut(c, table, np, -1, <<>>)
    ELSE IF c.val = NewClassTag
        THEN new_class(ReadFields(c.r, <<"word", "word">>), ver, table, np, c.val)
    ELSE IF c.val = NullTag
        THEN RecordOut(ReadOk(None, c.r, <<>>), table, next_pid_after_null(np),
                       c.val, <<>>)
    ELSE class_reference(c.r, class_pid_of(c.val), ver, table, np, c.val)

parse_entity_with_pid_tracking(r, ver, table, np) ==
    class_id_read(read_word(r), ver, table, np)

-----------------------------------------------------------------------------
(* The entity-list locator (lib.rs:112-135) *)

ScanStart == 100
ScanTail == 20
MinNameLen == 8
MaxNameLen == 20

\* data[k], k 0-based: the byte, or -1 where the index is outside the buffer
\* and the access panics
byte_at(d, k) == IF k >= 0 /\ k < Len(d) THEN d[k + 1] ELSE -1

\* (data[i + 4] as u16) | ((data[i + 5] as u16) << 8)
name_len_at(d, i) == byte_at(d, i + 4) + 256 * byte_at(d, i + 5)

\* a locator that slices the name without asking whether it fits
name_fits_mut(d, i, name_len) == TRUE

\* i + 6 + name_len as usize <= data.len()
name_fits(d, i, name_len) == i + 6 + name_len <= Len(d)

\* &data[i + 6..i + 6 + name_len]
name_slice(d, i, name_len) == [k \in 1 .. name_len |-> byte_at(d, i + 5 + k)]

\* the conditions on name_len that guard the slice
name_len_ok(d, i) ==
    /\ name_len_at(d, i) >= MinNameLen /\ name_len_at(d, i) <= MaxNameLen
    /\ name_fits(d, i, name_len_at(d, i))

\* a test that takes any schema word
pattern_at_mut(d, ver, i) ==
    /\ byte_at(d, i) = 255 /\ byte_at(d, i + 1) = 255
    /\ name_len_ok(d, i)
    /\ StartsWith(name_slice(d, i, name_len_at(d, i)), CData)

\* the test made at candidate position i (0-based) of buffer d
pattern_at(d, ver, i) ==
    /\ byte_at(d, i) = 255 /\ byte_at(d, i + 1) = 255
    /\ byte_at(d, i + 2) = ver % 256 /\ byte_at(d, i + 3) = (ver \div 256) % 256
    /\ name_len_ok(d, i)
    /\ StartsWith(name_slice(d, i, name_len_at(d, i)), CData)

\* the indices of d the test at candidate i reads, each condition being
\* evaluated only when the ones before it held
reads_at(d, ver, i) ==
    {i} \cup
    (IF byte_at(d, i) # 255 THEN {} ELSE {i + 1} \cup
    (IF byte_at(d, i + 1) # 255 THEN {} ELSE {i + 2} \cup
    (IF byte_at(d, i + 2) # ver % 256 THEN {} ELSE {i + 3} \cup
    (IF byte_at(d, i + 3) # (ver \div 256) % 256 THEN {} ELSE {i + 4, i + 5} \cup
    (IF name_len_ok(d, i) THEN i + 6 .. i + 5 + name_len_at(d, i) ELSE {})))))

SetMin(S) == CHOOSE x \in S : \A y \in S : x <= y

\* data.len().saturating_sub(20)
scan_end(d) == IF Len(d) >= ScanTail THEN Len(d) - ScanTail ELSE 0

\* the candidates that pass the test
scan_hits(d, ver) == {i \in ScanStart .. (scan_end(d) - 1) : pattern_at(d, ver, i)}

\* a locator that returns the position of the pattern itself
find_entity_list_offset_mut(d, ver) ==
    IF scan_hits(d, ver) = {} THEN None ELSE Some(SetMin(scan_hits(d, ver)))

\* Some(offset) of the first match of the loop over 100..len-20, or None
find_entity_list_offset(d, ver) ==
    LET hits == scan_hits(d, ver)
    IN  IF hits = {} THEN None
        ELSE LET i == SetMin(hits) IN Some(IF i >= 2 THEN i - 2 ELSE 0)

\* the candidates the loop visits: up to its first match, or all of them
scan_visited(d, ver) ==
    {i \in ScanStart .. (scan_end(d) - 1) :
        \A j \in scan_hits(d, ver) : i <= j}

\* every index of d the locator reads
locator_reads(d, ver) == UNION {reads_at(d, ver, i) : i \in scan_visited(d, ver)}

-----------------------------------------------------------------------------
(* parse (lib.rs:29-109), stage by stage *)

SIGNATURE == <<74, 119, 119, 68, 97, 116, 97, 46>>     \* "JwwData."

NumLayerGroups == 16
NumLayers == 16

\* a gate that compares only the first seven bytes
signature_ok_mut(d) == Len(d) >= 8 /\ SubSeq(d, 1, 7) = SubSeq(SIGNATURE, 1, 7)

\* the negation of the signature gate's condition
signature_ok(d) == ~(Len(d) < 8 \/ SubSeq(d, 1, 8) # SIGNATURE)

\* the reads of one turn of the layer-group loop
GroupTypes ==
    <<"dword", "dword", "double", "dword">> \o Repeat(<<"dword", "dword">>, NumLayers)

LayerGroupOf(v) ==
    [state |-> v[1], write_layer |-> v[2], scale |-> v[3], protect |-> v[4],
     layers |-> [lay \in 0 .. NumLayers - 1 |->
                    [state |-> v[5 + 2 * lay], protect |-> v[6 + 2 * lay],
                     name |-> <<>>]],
     name |-> <<>>]

RECURSIVE read_layer_groups(_, _)
read_layer_groups_next(x, groups) ==
    IF x.err # NoError THEN x
    ELSE read_layer_groups(x.r, Append(groups, LayerGroupOf(x.val)))

read_layer_groups(r, groups) ==
    IF Len(groups) = NumLayerGroups
    THEN ReadOk([g \in 0 .. NumLayerGroups - 1 |-> groups[g + 1]], r, <<>>)
    ELSE read_layer_groups_next(ReadFields(r, GroupTypes), groups)

\* format!("{:x}", n): lowercase digits
HexUpper_mut(n) == IF n < 10 THEN <<48 + n>> ELSE <<87 + n>>

\* format!("{:X}", n) for n in 0..15
HexUpper(n) == IF n < 10 THEN <<48 + n>> ELSE <<55 + n>>

GroupText == <<71, 114, 111, 117, 112>>     \* "Group"
Dash == <<45>>                              \* "-"

\* the default names given after the entity list decoded (lib.rs:88-98)
default_names(groups) ==
    [g \in DOMAIN groups |->
        [groups[g] EXCEPT
            !.name = IF groups[g].name = <<>> THEN GroupText \o HexUpper(g) ELSE @,
            !.layers = [lay \in DOMAIN groups[g].layers |->
                [groups[g].layers[lay] EXCEPT
                    !.name = IF @ = <<>> THEN HexUpper(g) \o Dash \o HexUpper(lay)
                             ELSE @]]]]

NoResult == [kind |-> "none", err |-> <<>>, doc |-> <<>>]
Err(e)   == [kind |-> "Err", err |-> <<e>>, doc |-> <<>>]
Ok(doc)  == [kind |-> "Ok", err |-> <<>>, doc |-> <<doc>>]

\* a locator miss returned as an I/O error
locate_error_mut == IoError

\* what a locator miss returns (lib.rs:78)
locate_error == OtherNotFound

Idle ==
    /\ pc = "idle"
    /\ data = <<>>
    /\ reader = Reader_new(0)
    /\ version = 0 /\ memo = <<>> /\ paper_size = 0 /\ write_layer_group = 0
    /\ layer_groups = <<>>
    /\ reader2 = Reader_new(0)
    /\ count = 0 /\ done_records = 0 /\ entities = <<>>
    /\ pid_to_class = <<>> /\ next_pid = 0
    /\ result = NoResult
    /\ allocs = <<>>
    /\ processed = <<>>
    /\ reads = <<>> /\ returned = <<>> /\ parked = <<>> /\ dxf = <<>>

Init == Idle

\* every error returned as an I/O error
Fail_mut(e) == pc' = "done" /\ result' = Err(IoError)

\* the failing `?` or `return Err`: parse returns e
Fail(e) == pc' = "done" /\ result' = Err(e)

header_vars == <<version, memo, paper_size, write_layer_group>>
list_vars == <<count, done_records, entities, pid_to_class, next_pid, processed>>
\* what no step of parse touches
outer_vars == <<reads, returned, parked, dxf>>

-----------------------------------------------------------------------------
(* Input buffers: the files the model hands to parse *)

MaxRecords == 2      \* records in an enumerated entity stream
MaxPayload == 3      \* bytes in an enumerated string payload
PadLen == 24         \* zero bytes after an entity stream

\* the layer matrix of the integration tests
MatrixBytes ==
    Repeat(U32(2) \o U32(0) \o F64_1 \o U32(0)
               \o Repeat(U32(2) \o U32(0), NumLayers), NumLayerGroups)

HeaderBytes(ver, memo_field) ==
    SIGNATURE \o U32(ver) \o memo_field \o U32(0) \o U32(0) \o MatrixBytes

\* the three forms of the length prefix
CStrHeader(form, n) ==
    CASE form = 1 -> <<n>>
      [] form = 3 -> <<255>> \o U16(n)
      [] form = 7 -> <<255, 255, 255>> \o U32(n)

CStr(form, payload) == CStrHeader(form, Len(payload)) \o payload

\* an entity base on the wire, with the given layer and layer group
BaseBytesAt(ver, style, color, layer, layer_group) ==
    U32(0) \o <<style>> \o U16(color)
        \o (IF ver >= 351 THEN U16(2) ELSE <<>>)
        \o U16(layer) \o U16(layer_group) \o U16(0)

BaseBytes(ver, style, color) == BaseBytesAt(ver, style, color, 3, 4)

LineBytes(ver) == BaseBytes(ver, 0, 1) \o F64_0 \o F64_0 \o F64_100 \o F64_50

TextBytes(ver) ==
    BaseBytes(ver, 0, 1) \o F64_0 \o F64_0 \o F64_100 \o F64_50 \o U32(0)
        \o F64_1 \o F64_1 \o F64_0 \o F64_0
        \o CStr(1, <<65>>) \o CStr(3, <<131, 65, 0, 0>>)

BodyBytes(kind, ver) ==
    CASE kind = "Sen"     -> LineBytes(ver)
      [] kind = "SenFar"  -> BaseBytesAt(ver, 0, 1, 16, 65535)
                               \o F64_0 \o F64_0 \o F64_100 \o F64_50
      [] kind = "Enko"    -> BaseBytes(ver, 0, 1) \o F64_50 \o F64_50 \o F64_100
                               \o F64_0 \o F64_1 \o F64_0 \o F64_1 \o U32(1)
      [] kind = "EnkoArc" -> BaseBytes(ver, 2, 8) \o F64_50 \o F64_50 \o F64_100
                               \o F64_0 \o F64_1 \o F64_0 \o F64_1 \o U32(0)
      [] kind = "EnkoOval" -> BaseBytes(ver, 0, 1) \o F64_50 \o F64_50 \o F64_100
                               \o F64_0 \o F64_1 \o F64_0 \o F64_50 \o U32(1)
      [] kind = "EnkoOvalArc" -> BaseBytes(ver, 0, 1) \o F64_50 \o F64_50 \o F64_100
                               \o F64_0 \o F64_1 \o F64_0 \o F64_50 \o U32(0)
      [] kind = "Ten"     -> BaseBytes(ver, 0, 1) \o F64_50 \o F64_100 \o U32(0)
      [] kind = "Ten100"  -> BaseBytes(ver, 100, 1) \o F64_50 \o F64_100 \o U32(1)
                               \o U32(7) \o F64_50 \o F64_100
      [] kind = "Moji"    -> TextBytes(ver)
      [] kind = "Solid"   -> BaseBytes(ver, 0, 1) \o F64_0 \o F64_0 \o F64_0 \o F64_1
                               \o F64_50 \o F64_0 \o F64_50 \o F64_1
      [] kind = "Solid10" -> BaseBytes(ver, 0, 10) \o F64_0 \o F64_0 \o F64_0 \o F64_1
                               \o F64_50 \o F64_0 \o F64_50 \o F64_1 \o U32(5)
      [] kind = "Block"   -> BaseBytes(ver, 0, 1) \o F64_50 \o F64_50 \o F64_1 \o F64_1
                               \o F64_0 \o U32(3)
      [] kind = "Sunpou"  -> BaseBytes(ver, 0, 1) \o LineBytes(ver) \o TextBytes(ver)
                               \o (IF ver >= 420
                                   THEN U16(0) \o Repeat(LineBytes(ver), 2)
                                            \o Repeat(BaseBytes(ver, 0, 1) \o F64_50
                                                          \o F64_100 \o U32(0), 4)
                                   ELSE <<>>)
      [] kind = "Unknown" -> <<>>

NameBytes(kind) ==
    CASE kind \in {"Sen", "SenFar"} -> CDataSen
      [] kind \in {"Enko", "EnkoArc", "EnkoOval", "EnkoOvalArc"} -> CDataEnko
      [] kind \in {"Ten", "Ten100"}     -> CDataTen
      [] kind = "Moji"    -> CDataMoji
      [] kind \in {"Solid", "Solid10"}  -> CDataSolid
      [] kind = "Block"   -> CDataBlock
      [] kind = "Sunpou"  -> CDataSunpou
      [] kind = "Unknown" -> CData \o <<88, 88, 88, 130>>

NewRec(kind)     == [tag |-> "new", kind |-> kind, id |-> 65535]
NullRec          == [tag |-> "null", kind |-> "Unknown", id |-> 32768]
RefRec(id, kind) == [tag |-> "ref", kind |-> kind, id |-> id]

RecBytes(item, ver) ==
    CASE item.tag = "new"  -> U16(65535) \o U16(ver % 65536)
                                \o U16(Len(NameBytes(item.kind)))
                                \o NameBytes(item.kind) \o BodyBytes(item.kind, ver)
      [] item.tag = "null" -> U16(32768)
      [] item.tag = "ref"  -> U16(item.id) \o BodyBytes(item.kind, ver)

Stream(cnt, items, ver) ==
    U16(cnt) \o Flatten([i \in 1 .. Len(items) |-> RecBytes(items[i], ver)])
        \o Repeat(<<0>>, PadLen)

\* the entity list of the integration tests: no record, then a class pattern
MinimalStream(ver) ==
    U16(0) \o U16(65535) \o U16(ver % 65536) \o U16(8)
        \o CData \o <<88, 88, 88, 88>> \o Repeat(<<0>>, PadLen)

FileOf(ver, memo_field, stream) == HeaderBytes(ver, memo_field) \o stream

Minimal == FileOf(600, <<0>>, MinimalStream(600))

Kinds == {"Sen", "Enko", "Ten", "Ten100", "Moji", "Solid", "Solid10", "Block",
          "Sunpou", "Unknown"}

Versions == {350, 351, 419, 420, 600}

Menu == {NewRec("Sen"), NewRec("Sunpou"), NewRec("Unknown"), NullRec,
         RefRec(32769, "Sen"), RefRec(3, "Sen")}

PayloadBytes == {0, 65, 131}

Payloads ==
    SeqsUpTo(PayloadBytes, MaxPayload)
        \cup {<<255, 254, 65, 0, 0, 0>>, <<254, 255, 0, 65, 0, 0>>,
              <<239, 187, 191, 65, 0>>, <<131>>, <<160, 0>>}

Forms == {1, 3, 7}

StreamInputs ==
    {FileOf(600, <<0>>, Stream(Len(items), items, 600)) :
        items \in SeqsUpTo(Menu, MaxRecords)}

KindInputs ==
    {FileOf(v, <<0>>, Stream(2, <<NewRec(k), RefRec(32769, k)>>, v)) :
        k \in Kinds, v \in Versions}

\* further streams: a null record between two class definitions and a
\* reference to the second; two classes and references to both; every kind
\* of outcome in one stream; a line whose layer is 16 and whose layer group
\* is 65535; a circle, an arc, a full ellipse and an elliptic arc
ScenarioInputs ==
    {FileOf(600, <<0>>, Stream(Len(items), items, 600)) :
        items \in {<<NewRec("Sen"), NullRec, NewRec("Enko"), RefRec(32771, "Enko")>>,
                   <<NewRec("Sen"), NullRec, RefRec(32769, "Sen")>>,
                   <<NewRec("Sen"), NewRec("Enko"), RefRec(32769, "Sen"),
                     RefRec(32771, "Enko")>>,
                   <<NewRec("Sen"), RefRec(32769, "Sen"), NewRec("Sunpou"), NullRec>>,
                   <<NewRec("SenFar")>>,
                   <<NewRec("Enko"), RefRec(32769, "EnkoArc"), RefRec(32769, "EnkoOval"),
                     RefRec(32769, "EnkoOvalArc")>>}}

CountInputs ==
    {FileOf(600, <<0>>, Stream(c, <<NewRec("Sen"), NullRec>>, 600)) :
        c \in 0 .. MaxRecords}

MemoInputs ==
    {FileOf(600, CStr(f, p), MinimalStream(600)) : f \in Forms, p \in Payloads}

\* files that end inside the memo: the prefix announces n bytes, fewer follow
ShortMemoInputs ==
    UNION {{SIGNATURE \o U32(600) \o CStrHeader(f, n) \o Repeat(<<65>>, k) :
               f \in Forms, k \in 0 .. n - 1} : n \in 1 .. MaxPayload + 1}
    \cup {SIGNATURE \o U32(600) \o CStrHeader(7, 2147483647) \o <<65>>,
          SIGNATURE \o U32(600) \o CStrHeader(3, 65534) \o <<65, 0>>,
          SIGNATURE \o U32(600) \o CStrHeader(1, 254)}

\* a file that ends inside the class name of its first record
ShortNameInputs ==
    {HeaderBytes(600, <<0>>) \o MinimalStream(600)
        \o U16(65535) \o U16(600) \o U16(n) \o CData :
        n \in {6, 8, 65535}}

TruncLens == {0, 5, 7, 8, 9, 12, 13, 17, 21, 22, 41, 2388, 2389, 2390, 2391, 2400}

TruncInputs == {Take(Minimal, n) : n \in TruncLens}

SigInputs ==
    {[Minimal EXCEPT ![k] = 0] : k \in 1 .. 8}
        \cup {<<115, 104, 111, 114, 116>>,
              <<73, 110, 118, 97, 108, 105, 100, 32, 115, 105, 103, 110, 97, 116,
                117, 114, 101>>,
              SubSeq(SIGNATURE, 1, 7) \o <<44>> \o Tail(Tail(Tail(Tail(Tail(Tail(Tail(Tail(Minimal))))))))}

\* a memo that holds a class-definition pattern at a position the locator
\* scans
PatternMemo ==
    CStr(1, Repeat(<<0>>, 90) \o <<255, 255>> \o U16(600) \o U16(8) \o CDataSen
                \o Repeat(<<0>>, 30))

\* a memo that holds a whole entity list of one line: the count at offset
\* 98 of the file and the class definition at offset 100
ListMemo ==
    CStr(1, Repeat(<<0>>, 85) \o U16(1) \o <<255, 255>> \o U16(600) \o U16(8)
                \o CDataSen \o LineBytes(600))

\* a memo that holds the count 1 and a class definition of schema 601
DecoyMemo ==
    CStr(1, Repeat(<<0>>, 85) \o U16(1) \o <<255, 255>> \o U16(601) \o U16(8)
                \o CDataSen \o Repeat(<<0>>, 30))

\* files whose only pattern is in the memo: one that ends in the header, one
\* that ends in the layer matrix, one with no entity list after the matrix;
\* a file with an entity list in the memo and one of a circle after the matrix;
\* a file with a class definition of another schema in the memo and a line
\* after the matrix
OrderInputs ==
    {SIGNATURE \o U32(600) \o PatternMemo \o U32(0),
     SIGNATURE \o U32(600) \o PatternMemo \o U32(0) \o U32(0) \o Take(MatrixBytes, 40),
     HeaderBytes(600, PatternMemo),
     FileOf(600, ListMemo, Stream(1, <<NewRec("Enko")>>, 600)),
     FileOf(600, DecoyMemo, Stream(1, <<NewRec("Sen")>>, 600))}

\* one line in files of versions no release of the format has: 0, 1, one
\* above 16 bits whose low word is 600, and the largest one below 2^31
VersionInputs ==
    {FileOf(v, <<0>>, Stream(1, <<NewRec("Sen")>>, v)) :
        v \in {0, 1, 66136, 2147483647}}

Inputs ==
    OrderInputs \cup StreamInputs \cup KindInputs \cup ScenarioInputs \cup CountInputs \cup MemoInputs
        \cup ShortMemoInputs \cup ShortNameInputs \cup TruncInputs \cup SigInputs
        \cup VersionInputs

-----------------------------------------------------------------------------
(* The actions *)

\* parse is called: the signature gate and the header cursor (lib.rs:29-35)
Parse(input) ==
    /\ pc = "idle"
    /\ data' = input
    /\ IF signature_ok(input)
       THEN /\ pc' = "header"
            /\ reader' = Reader_new(8)
            /\ UNCHANGED result
       ELSE /\ Fail(InvalidSignature)
            /\ UNCHANGED reader
    /\ UNCHANGED <<header_vars, layer_groups, reader2, list_vars, allocs, outer_vars>>

\* a header whose version is kept as a u16
HeaderRead_mut(x) ==
    /\ allocs' = allocs \o x.allocs
    /\ IF x.err # NoError
       THEN /\ Fail(x.err)
            /\ UNCHANGED <<reader, header_vars>>
       ELSE /\ pc' = "matrix"
            /\ reader' = x.r
            /\ version' = x.val[1] % 65536
            /\ memo' = x.val[2]
            /\ paper_size' = x.val[3]
            /\ write_layer_group' = x.val[4]
            /\ UNCHANGED result

\* version, memo, paper size, write layer group (lib.rs:37-43); x is the
\* outcome of the four reads
HeaderRead(x) ==
    /\ allocs' = allocs \o x.allocs
    /\ IF x.err # NoError
       THEN /\ Fail(x.err)
            /\ UNCHANGED <<reader, header_vars>>
       ELSE /\ pc' = "matrix"
            /\ reader' = x.r
            /\ version' = x.val[1]
            /\ memo' = x.val[2]
            /\ paper_size' = x.val[3]
            /\ write_layer_group' = x.val[4]
            /\ UNCHANGED result

ReadHeader ==
    /\ pc = "header"
    /\ HeaderRead(ReadFields(reader, <<"dword", "string", "dword", "dword">>))
    /\ UNCHANGED <<data, layer_groups, reader2, list_vars, outer_vars>>

\* the 16 x 16 layer matrix (lib.rs:45-72); x is the outcome of its reads
LayerGroupsRead(x) ==
    IF x.err # NoError
    THEN /\ Fail(x.err)
         /\ UNCHANGED <<reader, layer_groups>>
    ELSE /\ pc' = "locate"
         /\ reader' = x.r
         /\ layer_groups' = x.val
         /\ UNCHANGED result

ReadLayerGroups ==
    /\ pc = "matrix"
    /\ LayerGroupsRead(read_layer_groups(reader, <<>>))
    /\ UNCHANGED <<data, header_vars, reader2, list_vars, allocs, outer_vars>>

\* the locator and the entity cursor (lib.rs:74-83); off is what the
\* locator gave
\* a parse that goes on to the entity list after a locator miss
Located_mut(off) ==
    /\ pc' = "list"
    /\ reader2' = Reader_new(IF off = None THEN 0 ELSE off[1])
    /\ UNCHANGED result

Located(off) ==
    IF off = None
    THEN /\ Fail(locate_error)
         /\ UNCHANGED reader2
    ELSE /\ pc' = "list"
         /\ reader2' = Reader_new(off[1])
         /\ UNCHANGED result

Locate ==
    /\ pc = "locate"
    /\ Located(find_entity_list_offset(data, version))
    /\ UNCHANGED <<data, reader, header_vars, layer_groups, list_vars, allocs, outer_vars>>

\* an entity list decoded with the class table of the call before it
CountRead_mut(c) ==
    IF c.err # NoError
    THEN /\ Fail(c.err)
         /\ UNCHANGED <<reader2, list_vars, allocs>>
    ELSE /\ pc' = "records"
         /\ allocs' = Append(allocs, Alloc("entities", c.val, Remaining(c.r)))
         /\ reader2' = c.r
         /\ count' = c.val
         /\ done_records' = 0
         /\ entities' = <<>>
         /\ pid_to_class' = pid_to_class
         /\ next_pid' = 1
         /\ processed' = <<>>
         /\ UNCHANGED result

\* parse_entity_list up to its loop (lib.rs:139-145); c is the read of count
CountRead(c) ==
    IF c.err # NoError
    THEN /\ Fail(c.err)
         /\ UNCHANGED <<reader2, list_vars, allocs>>
    ELSE /\ pc' = "records"
         /\ allocs' = Append(allocs, Alloc("entities", c.val, Remaining(c.r)))
         /\ reader2' = c.r
         /\ count' = c.val
         /\ done_records' = 0
         /\ entities' = <<>>
         /\ pid_to_class' = <<>>
         /\ next_pid' = 1
         /\ processed' = <<>>
         /\ UNCHANGED result

BeginEntityList ==
    /\ pc = "list"
    /\ CountRead(read_word(reader2))
    /\ UNCHANGED <<data, reader, header_vars, layer_groups, outer_vars>>

\* one turn of the loop of parse_entity_list (lib.rs:147-153); x is what
\* parse_entity_with_pid_tracking returned and left in the table and next_pid
RecordParsed(x) ==
    /\ allocs' = allocs \o x.allocs
    /\ pid_to_class' = x.pid_to_class
    /\ next_pid' = x.next_pid
    /\ reader2' = x.r
    /\ processed' = Append(processed,
           [class_id |-> x.class_id, class_name |-> x.class_name,
            outcome |-> IF x.err # NoError THEN "error"
                        ELSE IF x.val = None THEN "none" ELSE "entity"])
    /\ IF x.err # NoError
       THEN /\ Fail(x.err)
            /\ UNCHANGED <<done_records, entities>>
       ELSE /\ done_records' = done_records + 1
            /\ entities' = entities \o x.val
            /\ UNCHANGED <<pc, result>>

ParseRecord ==
    /\ pc = "records"
    /\ done_records < count
    /\ RecordParsed(parse_entity_with_pid_tracking(reader2, version, pid_to_class,
                                                   next_pid))
    /\ UNCHANGED <<data, reader, header_vars, layer_groups, count, outer_vars>>

\* the loop is over: default names and the document (lib.rs:155, 88-108)
Assemble ==
    /\ pc = "records"
    /\ done_records = count
    /\ pc' = "done"
    /\ layer_groups' = default_names(layer_groups)
    /\ result' = Ok([version |-> version, memo |-> memo, paper_size |-> paper_size,
                     write_layer_group |-> write_layer_group,
                     layer_groups |-> layer_groups',
                     entities |-> entities, block_defs |-> <<>>])
    /\ UNCHANGED <<data, reader, header_vars, reader2, list_vars, allocs, outer_vars>>

\* parse has returned; its frame is gone
Return ==
    /\ pc = "done"
    /\ pc' = "idle"
    /\ data' = <<>>
    /\ reader' = Reader_new(0)
    /\ version' = 0 /\ memo' = <<>> /\ paper_size' = 0 /\ write_layer_group' = 0
    /\ layer_groups' = <<>>
    /\ reader2' = Reader_new(0)
    /\ count' = 0 /\ done_records' = 0 /\ entities' = <<>>
    /\ pid_to_class' = <<>> /\ next_pid' = 0
    /\ result' = NoResult
    /\ allocs' = <<>>
    /\ processed' = <<>>
    /\ UNCHANGED outer_vars

Next ==
    \/ \E input \in Inputs : Parse(input)
    \/ ReadHeader
    \/ ReadLayerGroups
    \/ Locate
    \/ BeginEntityList
    \/ ParseRecord
    \/ Assemble
    \/ Return

Spec == Init /\ [][Next]_vars

-----------------------------------------------------------------------------
(* The locator on its own: find_entity_list_offset applied to buffers of    *)
(* every shape, which parse reaches only behind a complete header           *)

MaxLead == 2         \* bytes between position 100 and an enumerated pattern

\* FF FF, the schema word, name_len and the name
PatternBytes(schema, name_len, name) ==
    <<255, 255>> \o U16(schema % 65536) \o U16(name_len) \o name

ScanNames ==
    {CDataSen,
     CData \o Repeat(<<88>>, 15),
     <<67, 68, 97, 116, 88, 83, 101, 110>>}

ScanNameLens == {7, 8, 20, 21}

ScanLeads == 98 .. 100 + MaxLead

ScanTails == {0, 6, 7, 11, 12, 13}

\* one pattern after `lead` zero bytes, followed by `tail` zero bytes
OnePatternBuffers ==
    {Repeat(<<0>>, lead) \o PatternBytes(600, n, name) \o Repeat(<<0>>, tail) :
        lead \in ScanLeads, n \in ScanNameLens, name \in ScanNames, tail \in ScanTails}

\* the beginning of a pattern only, at position 100
PartialPatternBuffers ==
    {Repeat(<<0>>, 100) \o Take(PatternBytes(600, 8, CDataSen), k)
        \o Repeat(<<0>>, 30) : k \in 1 .. 13}

\* a pattern that fails the test followed by one that passes, and two that
\* pass
TwoPatternBuffers ==
    {Repeat(<<0>>, 100) \o PatternBytes(600, n, CDataSen) \o Repeat(<<0>>, gap)
        \o PatternBytes(600, 8, CDataEnko) \o Repeat(<<0>>, 24) :
        n \in ScanNameLens, gap \in 0 .. MaxLead}

\* buffers that end before, at and after the first candidate position
ShortBuffers ==
    {Take(Repeat(<<0>>, 100) \o PatternBytes(600, 8, CDataSen) \o Repeat(<<255>>, 30), n) :
        n \in {0, 1, 19, 20, 21, 99, 100, 101, 119, 120, 121, 122, 126, 134, 135, 144}}

ScanBuffers ==
    OnePatternBuffers \cup PartialPatternBuffers \cup TwoPatternBuffers
        \cup ShortBuffers

\* versions whose low two bytes are and are not those of the patterns
ScanVersions == {600, 66136, 344}

\* the locator is about to run on some buffer with some version
LocatorInit ==
    /\ pc = "locate"
    /\ data \in ScanBuffers
    /\ version \in ScanVersions
    /\ reader = Reader_new(0)
    /\ memo = <<>> /\ paper_size = 0 /\ write_layer_group = 0
    /\ layer_groups = <<>>
    /\ reader2 = Reader_new(0)
    /\ count = 0 /\ done_records = 0 /\ entities = <<>>
    /\ pid_to_class = <<>> /\ next_pid = 0
    /\ result = NoResult
    /\ allocs = <<>>
    /\ processed = <<>>
    /\ reads = <<>> /\ returned = <<>> /\ parked = <<>> /\ dxf = <<>>

LocatorNext == Locate

LocatorSpec == LocatorInit /\ [][LocatorNext]_vars

-----------------------------------------------------------------------------
(* Vocabulary of the properties below *)

\* the running call is about to handle a record and this step handles it
RecordStep == pc = "records" /\ Len(processed') = Len(processed) + 1

\* the class_id word under the entity cursor, read off the buffer (-1: fewer
\* than two bytes are left)
NextClassId ==
    IF reader2.pos + 2 <= Len(data)
    THEN data[reader2.pos + 1] + 256 * data[reader2.pos + 2]
    ELSE -1

LastRecord == processed[Len(processed)]

\* t without its trailing NULs is u
IsNulTrimOf(u, t) ==
    /\ Len(u) <= Len(t)
    /\ u = SubSeq(t, 1, Len(u))
    /\ \A i \in Len(u) + 1 .. Len(t) : t[i] = 0
    /\ (u = <<>> \/ u[Len(u)] # 0)

\* t without its last character when that is a NUL, else t
DropOneNul(t) ==
    IF t # <<>> /\ t[Len(t)] = 0 THEN SubSeq(t, 1, Len(t) - 1) ELSE t

\* the length prefix that starts at 0-based offset `at` of buffer d: the size
\* of the header and the payload length it announces
LengthPrefix(d, at) ==
    IF Len(d) < at + 1 THEN [ok |-> FALSE, hdr |-> 0, len |-> 0]
    ELSE IF d[at + 1] < 255 THEN [ok |-> TRUE, hdr |-> 1, len |-> d[at + 1]]
    ELSE IF Len(d) < at + 3 THEN [ok |-> FALSE, hdr |-> 0, len |-> 0]
    ELSE IF d[at + 2] + 256 * d[at + 3] < 65535
        THEN [ok |-> TRUE, hdr |-> 3, len |-> d[at + 2] + 256 * d[at + 3]]
    ELSE IF Len(d) < at + 7 THEN [ok |-> FALSE, hdr |-> 0, len |-> 0]
    ELSE [ok |-> TRUE, hdr |-> 7,
          len |-> d[at + 4] + 256 * d[at + 5] + 65536 * d[at + 6]
                      + 16777216 * d[at + 7]]

\* the memo is the first string of a file: its prefix starts after the
\* signature and the version
MemoAt == 12

MemoPrefix == LengthPrefix(data, MemoAt)

\* the raw payload bytes of the memo, and their decoded text
MemoPayload ==
    SubSeq(data, MemoAt + MemoPrefix.hdr + 1, MemoAt + MemoPrefix.hdr + MemoPrefix.len)

MemoDecoded == SHIFT_JIS_decode(MemoPayload)

\* the number of NULs that end t
RECURSIVE TrailingNuls(_)
TrailingNuls(t) ==
    IF t # <<>> /\ t[Len(t)] = 0 THEN 1 + TrailingNuls(SubSeq(t, 1, Len(t) - 1)) ELSE 0

\* the entity type each of the six entity classes decodes to
TypeOfClass(name) ==
    CASE name = CDataSen   -> "Line"
      [] name = CDataEnko  -> "Arc"
      [] name = CDataTen   -> "Point"
      [] name = CDataMoji  -> "Text"
      [] name = CDataSolid -> "Solid"
      [] name = CDataBlock -> "Block"
      [] OTHER             -> "none"

\* the error the stage at pc raises on the current state, NoError if none
StageError ==
    CASE pc = "idle"    -> NoError
      [] pc = "header"  -> ReadFields(reader, <<"dword", "string", "dword", "dword">>).err
      [] pc = "matrix"  -> read_layer_groups(reader, <<>>).err
      [] pc = "locate"  -> IF find_entity_list_offset(data, version) = None
                           THEN OtherNotFound ELSE NoError
      [] pc = "list"    -> read_word(reader2).err
      [] pc = "records" -> IF done_records < count
                           THEN parse_entity_with_pid_tracking(reader2, version,
                                    pid_to_class, next_pid).err
                           ELSE NoError
      [] OTHER          -> NoError

\* no candidate position of the locator's scan carries the pattern
NoPattern ==
    \A i \in 100 .. Len(data) - 21 :
        ~ /\ data[i + 1] = 255 /\ data[i + 2] = 255
          /\ data[i + 3] = version % 256 /\ data[i + 4] = (version \div 256) % 256
          /\ data[i + 5] + 256 * data[i + 6] \in 8 .. 20
          /\ i + 6 + data[i + 5] + 256 * data[i + 6] <= Len(data)
          /\ SubSeq(data, i + 7, i + 11) = CData

-----------------------------------------------------------------------------
(* C1 *)

-----------------------------------------------------------------------------
(* C2 *)

-----------------------------------------------------------------------------
(* C3 *)

\* C3: parse returns InvalidSignature exactly for the inputs whose first 8
\* bytes are not "JwwData.", inputs shorter than 8 bytes included.
C3_SignatureGate ==
    pc = "done" =>
        ((result.kind = "Err" /\ result.err[1].kind = "InvalidSignature")
            <=> ~ (Len(data) >= 8
                   /\ \A k \in 1 .. 8 :
                          data[k] = <<74, 119, 119, 68, 97, 116, 97, 46>>[k]))

\* C3 witness: an input of fewer than 8 bytes was rejected
C3_ShortInputRejected ==
    /\ pc = "done"
    /\ Len(data) \in 1 .. 7
    /\ result.kind = "Err"
    /\ result.err[1].kind = "InvalidSignature"

-----------------------------------------------------------------------------
(* C4 *)

\* C4: a record whose class_id is neither 0xFFFF nor 0x8000 is decoded with
\* the decoder of the class bound at pid = class_id & 0x7FFF, and fails with
\* UnknownClassPid(pid) when that pid is unbound; a file whose first record
\* introduces CDataSen and whose second has class_id 0x8001 decodes to two
\* lines.
C4_BackReference ==
    /\ [][RecordStep /\ NextClassId \notin {-1, 65535, 32768} =>
              IF (NextClassId % 32768) \in DOMAIN pid_to_class
              THEN LET d == dispatch(pid_to_class[NextClassId % 32768],
                                     [pos |-> reader2.pos + 2,
                                      bytes_read |-> reader2.bytes_read + 2],
                                     version)
                   IN  IF d.err = NoError
                       THEN /\ pc' = "records"
                            /\ entities' = entities \o d.val
                            /\ reader2' = d.r
                       ELSE /\ pc' = "done"
                            /\ result'.kind = "Err"
                            /\ result'.err = <<d.err>>
              ELSE /\ pc' = "done"
                   /\ result'.kind = "Err"
                   /\ result'.err = <<[kind |-> "UnknownClassPid",
                                       arg |-> <<NextClassId % 32768>>]>>]_vars
    /\ [](pc = "done" /\ Len(processed) = 2 /\ count = 2
              /\ processed[1].class_id = 65535 /\ processed[1].class_name = CDataSen
              /\ processed[2].class_id = 32769
          => /\ result.kind = "Ok"
             /\ Len(result.doc[1].entities) = 2
             /\ result.doc[1].entities[1].type = "Line"
             /\ result.doc[1].entities[2].type = "Line")

\* C4 witness: the second record, class_id 0x8001, was decoded as a line
\* after the first introduced CDataSen
C4_SecondLineByReference ==
    /\ pc = "records"
    /\ Len(processed) = 2
    /\ processed[1].class_name = CDataSen
    /\ processed[2].class_id = 32769
    /\ Len(entities) = 2
    /\ entities[2].type = "Line"

-----------------------------------------------------------------------------
(* C5 *)

\* C5: during one decode no record removes or changes a binding of the pid
\* table, and a class definition is bound at a pid that was unbound.
C5_TableOnlyGrows ==
    [][pc = "records" /\ pc' # "idle" =>
           /\ \A p \in DOMAIN pid_to_class :
                  p \in DOMAIN pid_to_class' /\ pid_to_class'[p] = pid_to_class[p]
           /\ \A p \in DOMAIN pid_to_class' \ DOMAIN pid_to_class :
                  /\ NextClassId = 65535
                  /\ p = next_pid
                  /\ DOMAIN pid_to_class' = DOMAIN pid_to_class \cup {p}]_vars

\* C5 witness: two class definitions were handled and the table binds two
\* pids to two different names
C5_TwoBindings ==
    /\ pc = "records"
    /\ \E p, q \in DOMAIN pid_to_class : p < q /\ pid_to_class[p] # pid_to_class[q]

-----------------------------------------------------------------------------
(* C6 *)

-----------------------------------------------------------------------------
(* C7 *)

\* C7: the first error raised at any stage ends the call and is what parse
\* returns, unchanged; a call that returns an error returns no document,
\* whatever was decoded before, and a call runs no stage after an error.
C7_FirstErrorReturned ==
    [][/\ pc = "idle" /\ pc' = "done" => result' = [kind |-> "Err",
                                                   err |-> <<InvalidSignature>>,
                                                   doc |-> <<>>]
       /\ pc \notin {"idle", "done"} /\ StageError # NoError =>
              /\ pc' = "done"
              /\ result' = [kind |-> "Err", err |-> <<StageError>>, doc |-> <<>>]
       /\ pc \notin {"idle", "done"} /\ StageError = NoError =>
              result'.kind # "Err"
       /\ pc = "done" => pc' = "idle"]_vars

\* C7 witness: parse returned the error of the second record after the
\* first was decoded into an entity, and returned no document
C7_ErrorAfterEntity ==
    /\ pc = "done"
    /\ Len(entities) = 1
    /\ Len(processed) = 2
    /\ LastRecord.outcome = "error"
    /\ result.kind = "Err"
    /\ result.doc = <<>>

-----------------------------------------------------------------------------
(* C8 *)

\* C8 (as stated): no buffer is allocated with a size read off the wire that
\* exceeds the bytes remaining in the input, neither for a string nor for a
\* class name.
C8_NoOversizedAllocation ==
    \A i \in DOMAIN allocs :
        allocs[i].site \in {"cstring", "class_name"}
            => allocs[i].size <= allocs[i].remaining

-----------------------------------------------------------------------------
(* C9 *)

\* C9 (as stated): the string reader removes at most one trailing NUL: the
\* memo is its decoded payload without its last character when that is a
\* NUL, so a payload ending in k NULs gives a text ending in k - 1.
C9_AtMostOneNulRemoved ==
    pc = "matrix" /\ MemoPrefix.len > 0 =>
        /\ memo = DropOneNul(MemoDecoded)
        /\ TrailingNuls(MemoDecoded) >= 1
               => TrailingNuls(memo) = TrailingNuls(MemoDecoded) - 1

\* C9 (amended): the string reader removes every trailing NUL: the memo is
\* its decoded payload up to its last character that is not a NUL, and a
\* payload without a trailing NUL is returned as decoded.
C9_AllTrailingNulsRemoved ==
    pc = "matrix" /\ MemoPrefix.len > 0 =>
        /\ IsNulTrimOf(memo, MemoDecoded)
        /\ TrailingNuls(memo) = 0
        /\ TrailingNuls(MemoDecoded) = 0 => memo = MemoDecoded

\* C9 witness: a memo whose decoded payload ends in two NULs was read
C9_TwoTrailingNuls ==
    /\ pc = "matrix"
    /\ MemoPrefix.len > 0
    /\ TrailingNuls(MemoDecoded) >= 2
    /\ memo # <<>>

-----------------------------------------------------------------------------
(* C10 *)

\* C10: the string reader takes the payload length from a 1-byte header
\* when the first byte is below 0xFF, else from a 3-byte header when the
\* following u16 is below 0xFFFF, else from a 7-byte header; it then
\* consumes exactly that many payload bytes, fails when fewer remain, and
\* gives the empty text for a zero length.
C10_LengthPrefixForms ==
    /\ pc = "matrix" =>
           /\ MemoPrefix.ok
           /\ reader.pos = MemoAt + MemoPrefix.hdr + MemoPrefix.len + 8
           /\ reader.bytes_read = 4 + MemoPrefix.hdr + MemoPrefix.len + 8
           /\ MemoPrefix.len = 0 => memo = <<>>
           /\ IsNulTrimOf(memo, MemoDecoded)
    /\ pc = "done" /\ Len(data) >= MemoAt /\ SubSeq(data, 1, 8) = SIGNATURE
           /\ (~ MemoPrefix.ok
                  \/ Len(data) - (MemoAt + MemoPrefix.hdr) < MemoPrefix.len)
       => result.kind = "Err" /\ result.err[1].kind = "Io"

\* C10 witness: a memo with a 7-byte header was read and is not empty
C10_SevenByteHeader ==
    /\ pc = "matrix"
    /\ MemoPrefix.hdr = 7
    /\ MemoPrefix.len > 0
    /\ memo # <<>>

-----------------------------------------------------------------------------
(* C11 *)

\* the positions i with 100 <= i < len - 20 that carry the whole pattern
PatternSites ==
    {i \in 100 .. Len(data) - 21 :
        /\ data[i + 1] = 255 /\ data[i + 2] = 255
        /\ data[i + 3] = version % 256 /\ data[i + 4] = (version \div 256) % 256
        /\ data[i + 5] + 256 * data[i + 6] \in 8 .. 20
        /\ i + 6 + data[i + 5] + 256 * data[i + 6] <= Len(data)
        /\ SubSeq(data, i + 7, i + 11) = <<67, 68, 97, 116, 97>>}

\* C11: the locator returns i - 2 for the smallest position i, 100 <= i <
\* len - 20, that carries FF FF, the low two bytes of the version, a
\* name_len in 8..20 and a name inside the buffer that begins with "CData";
\* it reports no match exactly when there is no such position.
C11_LocatorOffset ==
    /\ pc = "list" =>
           /\ PatternSites # {}
           /\ \E i \in PatternSites :
                  /\ \A j \in PatternSites : i <= j
                  /\ reader2 = [pos |-> i - 2, bytes_read |-> 0]
    /\ pc = "done" =>
           /\ PatternSites = {}
           /\ result.kind = "Err"
           /\ result.err[1].kind = "Other"

\* C11 witness: the locator chose the first of two patterns, at position
\* 100, and returned 98
C11_FirstOfTwoPatterns ==
    /\ pc = "list"
    /\ Cardinality(PatternSites) = 2
    /\ 100 \in PatternSites
    /\ reader2.pos = 98

-----------------------------------------------------------------------------
(* C12 *)

\* C12: the locator never reads an index outside the buffer: at every
\* candidate position the six bytes of the fixed prefix are inside it, and
\* the name bytes are read only when name_len + 6 bytes fit.
C12_ScanStaysInside ==
    /\ \A k \in locator_reads(data, version) : k >= 0 /\ k < Len(data)
    /\ \A i \in scan_visited(data, version) : i + 5 < Len(data)
    /\ \A i \in scan_visited(data, version) :
           (\E k \in reads_at(data, version, i) : k > i + 5)
               => i + 6 + data[i + 5] + 256 * data[i + 6] <= Len(data)

\* C12 witness: the locator ran on a buffer whose last byte is the last
\* byte of a name of 20 bytes, and read it
C12_NameEndsBuffer ==
    /\ pc = "list"
    /\ Len(data) = 126
    /\ 125 \in locator_reads(data, version)

-----------------------------------------------------------------------------
(* C13 *)

\* the class names that have a decoder
KnownClassNames ==
    {<<67, 68, 97, 116, 97, 83, 101, 110>>,                  \* CDataSen
     <<67, 68, 97, 116, 97, 69, 110, 107, 111>>,             \* CDataEnko
     <<67, 68, 97, 116, 97, 84, 101, 110>>,                  \* CDataTen
     <<67, 68, 97, 116, 97, 77, 111, 106, 105>>,             \* CDataMoji
     <<67, 68, 97, 116, 97, 83, 111, 108, 105, 100>>,        \* CDataSolid
     <<67, 68, 97, 116, 97, 66, 108, 111, 99, 107>>,         \* CDataBlock
     <<67, 68, 97, 116, 97, 83, 117, 110, 112, 111, 117>>}   \* CDataSunpou

\* C13: a record whose class name is none of the seven known names makes
\* parse fail with UnknownEntityClass carrying that name; it is the last
\* record read, and every record with a known name is decoded by its class.
C13_UnknownClassIsTerminal ==
    \A i \in DOMAIN processed :
        processed[i].class_name # <<>> =>
            IF processed[i].class_name \in KnownClassNames
            THEN ~ (pc = "done" /\ result.kind = "Err"
                       /\ result.err[1].kind = "UnknownEntityClass"
                       /\ i = Len(processed))
            ELSE /\ i = Len(processed)
                 /\ processed[i].outcome = "error"
                 /\ pc = "done"
                 /\ result = [kind |-> "Err",
                              err |-> <<[kind |-> "UnknownEntityClass",
                                         arg |-> processed[i].class_name]>>,
                              doc |-> <<>>]

\* C13 witness: the second record defined a class with an unknown name,
\* after a first record that was decoded, and parse returned the name
C13_UnknownAfterEntity ==
    /\ pc = "done"
    /\ Len(processed) = 2
    /\ Len(entities) = 1
    /\ processed[2].class_id = 65535
    /\ result.kind = "Err"
    /\ result.err[1] = [kind |-> "UnknownEntityClass",
                        arg |-> <<67, 68, 97, 116, 97, 88, 88, 88, 65533>>]

-----------------------------------------------------------------------------
(* C14 *)

\* the steps from one stage of parse to the next, or to its return
StageOrder ==
    {<<"idle", "header">>, <<"header", "matrix">>, <<"matrix", "locate">>,
     <<"locate", "list">>, <<"list", "records">>, <<"records", "records">>,
     <<"idle", "done">>, <<"header", "done">>, <<"matrix", "done">>,
     <<"locate", "done">>, <<"list", "done">>, <<"records", "done">>,
     <<"done", "idle">>}

\* some layer group or layer of gs has a name
SomeNameSet(gs) ==
    \E g \in DOMAIN gs :
        gs[g].name # <<>> \/ \E l \in DOMAIN gs[g].layers : gs[g].layers[l].name # <<>>

\* C14: the stages of one parse run in the order header, layer matrix,
\* locator, entity list, assembly, each only after the one before succeeded:
\* a short read in the header or the matrix is returned as an I/O error
\* whatever the locator would find, a locator miss is returned before any
\* record is read, and names are defaulted only when the whole entity list
\* was decoded.
C14_StagesInOrder ==
    [][/\ <<pc, pc'>> \in StageOrder
       /\ pc \in {"header", "matrix", "locate", "list"} /\ pc' # "done"
              => StageError = NoError
       /\ pc \in {"header", "matrix"} /\ pc' = "done"
              => /\ result' = [kind |-> "Err",
                               err |-> <<[kind |-> "Io", arg |-> <<>>]>>,
                               doc |-> <<>>]
                 /\ reader2' = reader2 /\ processed' = processed
       /\ pc = "locate" /\ PatternSites = {}
              => /\ pc' = "done"
                 /\ result'.kind = "Err"
                 /\ reader2' = reader2 /\ reader2.bytes_read = 0
                 /\ processed' = <<>>
       /\ pc \in {"locate", "list", "records"} => ~ SomeNameSet(layer_groups)
       /\ SomeNameSet(layer_groups') /\ ~ SomeNameSet(layer_groups)
              => /\ pc = "records"
                 /\ done_records = count
                 /\ Len(processed) = count
                 /\ result'.kind = "Ok"]_vars

\* C14 witness: parse returned the I/O error of a header that ends after
\* the memo, on a buffer that holds a class-definition pattern at
\* position 103
C14_ShortHeaderWithPattern ==
    /\ pc = "done"
    /\ layer_groups = <<>>
    /\ result.kind = "Err"
    /\ result.err[1].kind = "Io"
    /\ Len(data) > 130
    /\ SubSeq(data, 104, 117) = <<255, 255, 88, 2, 8, 0, 67, 68, 97, 116, 97, 83, 101, 110>>

-----------------------------------------------------------------------------
(* C15 *)

\* the code points of 0-9 and A-F
HexDigitChars == <<48, 49, 50, 51, 52, 53, 54, 55, 56, 57, 65, 66, 67, 68, 69, 70>>

\* C15: on every returned Document every group name and every layer name
\* is non-empty; the names, which the decode leaves empty, are "Group"
\* followed by the group index as one uppercase hex digit, and the group
\* digit, "-" and the layer digit, for all 16 x 16 indices.
C15_DefaultNames ==
    pc = "done" /\ result.kind = "Ok" =>
        /\ DOMAIN result.doc[1].layer_groups = 0 .. 15
        /\ \A g \in 0 .. 15 :
               /\ result.doc[1].layer_groups[g].name # <<>>
               /\ result.doc[1].layer_groups[g].name
                      = <<71, 114, 111, 117, 112, HexDigitChars[g + 1]>>
               /\ DOMAIN result.doc[1].layer_groups[g].layers = 0 .. 15
               /\ \A l \in 0 .. 15 :
                      /\ result.doc[1].layer_groups[g].layers[l].name # <<>>
                      /\ result.doc[1].layer_groups[g].layers[l].name
                             = <<HexDigitChars[g + 1], 45, HexDigitChars[l + 1]>>

\* C15 witness: a Document was returned whose group 10 is named "GroupA"
\* and whose layer 11 of group 15 is named "F-B"
C15_HexNames ==
    /\ pc = "done"
    /\ result.kind = "Ok"
    /\ result.doc[1].layer_groups[10].name = <<71, 114, 111, 117, 112, 65>>
    /\ result.doc[1].layer_groups[15].layers[11].name = <<70, 45, 66>>

-----------------------------------------------------------------------------
(* C16 *)

\* C16 (as stated): on every returned Document every entity's base.layer
\* and base.layer_group are in 0..15.
C16_LayersInRange ==
    pc = "done" /\ result.kind = "Ok" =>
        \A i \in DOMAIN result.doc[1].entities :
            /\ result.doc[1].entities[i].base.layer \in 0 .. 15
            /\ result.doc[1].entities[i].base.layer_group \in 0 .. 15

-----------------------------------------------------------------------------
(* Vocabulary of the properties on record bodies *)

\* the u16 and the u32 at 0-based offset k of the buffer
WordAt(k) == data[k + 1] + 256 * data[k + 2]

DwordAt(k) == data[k + 1] + 256 * data[k + 2] + 65536 * data[k + 3] + 16777216 * data[k + 4]

\* the eight bytes at 0-based offset k
DoubleAt(k) == SubSeq(data, k + 1, k + 8)

\* the offset of the body of the record under the entity cursor: after
\* the class_id and, for a class definition, the schema, name_len and name
RecordBodyAt ==
    IF NextClassId = 65535 THEN reader2.pos + 6 + WordAt(reader2.pos + 4)
    ELSE reader2.pos + 2

\* the size of an entity base: 15 bytes from version 351 on, 13 before
BaseSize == IF version >= 351 THEN 15 ELSE 13

\* the entity this step appended
NewEntity == entities'[Len(entities')]

\* this step decoded a record into an entity
EntityStep == RecordStep /\ pc' = "records" /\ Len(entities') = Len(entities) + 1

-----------------------------------------------------------------------------
(* C17 *)

\* C17: an entity base takes pen_width from the wire exactly when the
\* version is at least 351: the base is then 15 bytes, else 13 with
\* pen_width = 0, and layer, layer_group and flag are the words that follow.
C17_PenWidthGate ==
    [][EntityStep =>
           /\ NewEntity.base.group = DwordAt(RecordBodyAt)
           /\ NewEntity.base.pen_style = data[RecordBodyAt + 5]
           /\ NewEntity.base.pen_color = WordAt(RecordBodyAt + 5)
           /\ IF version >= 351
              THEN /\ NewEntity.base.pen_width = WordAt(RecordBodyAt + 7)
                   /\ NewEntity.base.layer = WordAt(RecordBodyAt + 9)
                   /\ NewEntity.base.layer_group = WordAt(RecordBodyAt + 11)
                   /\ NewEntity.base.flag = WordAt(RecordBodyAt + 13)
              ELSE /\ NewEntity.base.pen_width = 0
                   /\ NewEntity.base.layer = WordAt(RecordBodyAt + 7)
                   /\ NewEntity.base.layer_group = WordAt(RecordBodyAt + 9)
                   /\ NewEntity.base.flag = WordAt(RecordBodyAt + 11)
           /\ NewEntity.type = "Line" =>
                  /\ NewEntity.start_x = DoubleAt(RecordBodyAt + BaseSize)
                  /\ reader2'.pos = RecordBodyAt + BaseSize + 32]_vars

\* C17 witness: a line of a version 350 file was decoded with pen_width 0
\* and the layer and layer group of its 13-byte base
C17_BaseWithoutPenWidth ==
    /\ pc = "records"
    /\ version = 350
    /\ Len(entities) = 1
    /\ entities[1].type = "Line"
    /\ entities[1].base.pen_width = 0
    /\ entities[1].base.layer = 3
    /\ entities[1].base.layer_group = 4

-----------------------------------------------------------------------------
(* C18 *)

\* the class name of the record under the entity cursor: the name bytes of
\* a class definition, the table entry of a class reference
ClassUnderCursor ==
    IF NextClassId = 65535
    THEN SubSeq(data, reader2.pos + 7, reader2.pos + 6 + WordAt(reader2.pos + 4))
    ELSE IF NextClassId >= 0 /\ NextClassId # 32768
            /\ (NextClassId % 32768) \in DOMAIN pid_to_class
        THEN pid_to_class[NextClassId % 32768]
    ELSE <<>>

\* the size of a length-prefixed string at 0-based offset at
StringSizeAt(at) == LengthPrefix(data, at).hdr + LengthPrefix(data, at).len

\* the offset of the first string of the text member of a dimension whose
\* body starts at b: after the outer base, the line member, and the base,
\* four f64, u32 and four f64 of the text member
SunpouStringsAt(b) == b + BaseSize + (BaseSize + 32) + (BaseSize + 68)

\* the size of the SXF data of a dimension: one u16, two times (base, 4 f64)
\* and four times (base, 2 f64, u32), from version 4.20 on
SunpouTailSize ==
    IF version >= 420 THEN 2 + 2 * (BaseSize + 32) + 4 * (BaseSize + 20) ELSE 0

\* the offset of the byte after the dimension whose body starts at b
SunpouEndAt(b) ==
    SunpouStringsAt(b) + StringSizeAt(SunpouStringsAt(b))
        + StringSizeAt(SunpouStringsAt(b) + StringSizeAt(SunpouStringsAt(b)))
        + SunpouTailSize

\* both length prefixes of the dimension whose body starts at b are whole
\* and its last byte is inside the buffer
SunpouFits(b) ==
    /\ LengthPrefix(data, SunpouStringsAt(b)).ok
    /\ LengthPrefix(data, SunpouStringsAt(b) + StringSizeAt(SunpouStringsAt(b))).ok
    /\ SunpouEndAt(b) <= Len(data)

-----------------------------------------------------------------------------
(* C19 *)

\* the offset of the first field after the base of the record under the
\* entity cursor
FieldsAt == RecordBodyAt + BaseSize

\* this step decoded a record of the class `name`
DecodedStep(name) == RecordStep /\ ClassUnderCursor = name /\ pc' = "records"

\* C19: a decoded CDataTen record is a point of the x, y and flag after its
\* base; when the pen_style byte of the base is 100 the code, angle and
\* scale are the u32 and two f64 that follow and the cursor moves past them,
\* otherwise they are 0, 0.0 and 1.0 and the cursor stays after the flag.
C19_PointExtraGate ==
    [][DecodedStep(CDataTen) =>
           /\ Len(entities') = Len(entities) + 1
           /\ NewEntity.type = "Point"
           /\ NewEntity.base.pen_style = data[RecordBodyAt + 5]
           /\ NewEntity.x = DoubleAt(FieldsAt)
           /\ NewEntity.y = DoubleAt(FieldsAt + 8)
           /\ NewEntity.is_temporary = (DwordAt(FieldsAt + 16) # 0)
           /\ IF data[RecordBodyAt + 5] = 100
              THEN /\ NewEntity.code = DwordAt(FieldsAt + 20)
                   /\ NewEntity.angle = DoubleAt(FieldsAt + 24)
                   /\ NewEntity.scale = DoubleAt(FieldsAt + 32)
                   /\ reader2'.pos = FieldsAt + 40
              ELSE /\ NewEntity.code = 0
                   /\ NewEntity.angle = F64_0
                   /\ NewEntity.scale = F64_1
                   /\ reader2'.pos = FieldsAt + 20]_vars

\* C19 witness: two points of pen_style 100 were decoded, the second from
\* the byte after the scale of the first, each with the code, angle and
\* scale of the wire
C19_TwoStyledPoints ==
    /\ pc = "records"
    /\ Len(entities) = 2
    /\ \A i \in 1 .. 2 :
           /\ entities[i].type = "Point"
           /\ entities[i].base.pen_style = 100
           /\ entities[i].code = 7
           /\ entities[i].angle = F64_50
           /\ entities[i].scale = F64_100

-----------------------------------------------------------------------------
(* C20 *)

\* C20: a decoded CDataSolid record is a solid whose corners 1, 4, 2 and 3
\* are the four pairs of f64 after its base, in that order on the wire;
\* when the pen_color word of the base is 10 its color is the u32 that
\* follows and the cursor moves past it, otherwise its color is 0 and the
\* cursor stays after the corners.
C20_SolidCornersAndColor ==
    [][DecodedStep(CDataSolid) =>
           /\ Len(entities') = Len(entities) + 1
           /\ NewEntity.type = "Solid"
           /\ NewEntity.base.pen_color = WordAt(RecordBodyAt + 5)
           /\ NewEntity.point1_x = DoubleAt(FieldsAt)
           /\ NewEntity.point1_y = DoubleAt(FieldsAt + 8)
           /\ NewEntity.point4_x = DoubleAt(FieldsAt + 16)
           /\ NewEntity.point4_y = DoubleAt(FieldsAt + 24)
           /\ NewEntity.point2_x = DoubleAt(FieldsAt + 32)
           /\ NewEntity.point2_y = DoubleAt(FieldsAt + 40)
           /\ NewEntity.point3_x = DoubleAt(FieldsAt + 48)
           /\ NewEntity.point3_y = DoubleAt(FieldsAt + 56)
           /\ IF WordAt(RecordBodyAt + 5) = 10
              THEN /\ NewEntity.color = DwordAt(FieldsAt + 64)
                   /\ reader2'.pos = FieldsAt + 68
              ELSE /\ NewEntity.color = 0
                   /\ reader2'.pos = FieldsAt + 64]_vars

\* C20 witness: two solids of pen_color 10 were decoded, the second from
\* the byte after the color of the first; the second and third pairs of the
\* wire are corners 4 and 2
C20_TwoColoredSolids ==
    /\ pc = "records"
    /\ Len(entities) = 2
    /\ \A i \in 1 .. 2 :
           /\ entities[i].type = "Solid"
           /\ entities[i].base.pen_color = 10
           /\ entities[i].color = 5
           /\ entities[i].point4_x = F64_0 /\ entities[i].point4_y = F64_1
           /\ entities[i].point2_x = F64_50 /\ entities[i].point2_y = F64_0
           /\ entities[i].point3_x = F64_50 /\ entities[i].point3_y = F64_1

-----------------------------------------------------------------------------
(* The reader on its own: a cursor over a buffer and a run of typed reads *)
(* (reader.rs:33-59, 93-110)                                               *)

MaxReads == 3
MaxBufLen == 10
MaxBlob == 3

\* the buffers read: the first n bytes of a fixed pattern
ReadBuffers == {[k \in 1 .. n |-> (37 * k) % 128] : n \in 0 .. MaxBufLen}

ReaderInit ==
    /\ pc = "reads"
    /\ data \in ReadBuffers
    /\ reader = Reader_new(0)
    /\ version = 0 /\ memo = <<>> /\ paper_size = 0 /\ write_layer_group = 0
    /\ layer_groups = <<>>
    /\ reader2 = Reader_new(0)
    /\ count = 0 /\ done_records = 0 /\ entities = <<>>
    /\ pid_to_class = <<>> /\ next_pid = 0
    /\ result = NoResult
    /\ allocs = <<>>
    /\ processed = <<>>
    /\ reads = <<>> /\ returned = <<>> /\ parked = <<>> /\ dxf = <<>>

\* one read returned x to its caller
ReadDone(op, n, x) ==
    /\ pc = "reads"
    /\ Len(reads) < MaxReads
    /\ reads' = Append(reads, [op |-> op, n |-> n, err |-> x.err, val |-> x.val])
    /\ reader' \in (IF x.err = NoError THEN {x.r} ELSE after_short_read(x.r))
    /\ UNCHANGED <<pc, data, header_vars, layer_groups, reader2, list_vars, result,
                   allocs, returned, parked, dxf>>

ReadByte == ReadDone("byte", 0, read_byte(reader))

ReadWord == ReadDone("word", 0, read_word(reader))

ReadDword == ReadDone("dword", 0, read_dword(reader))

ReadDouble == ReadDone("double", 0, read_double(reader))

ReadExact == \E n \in 0 .. MaxBlob : ReadDone("exact", n, read_exact(reader, n))

Skip == \E n \in 0 .. MaxBlob : ReadDone("skip", n, skip(reader, n))

ReaderNext ==
    \/ ReadByte
    \/ ReadWord
    \/ ReadDword
    \/ ReadDouble
    \/ ReadExact
    \/ Skip

ReaderSpec == ReaderInit /\ [][ReaderNext]_vars

-----------------------------------------------------------------------------
(* C21 *)

\* the width of a read of the history
WidthOf(rd) ==
    CASE rd.op = "byte"   -> 1
      [] rd.op = "word"   -> 2
      [] rd.op = "dword"  -> 4
      [] rd.op = "double" -> 8
      [] OTHER            -> rd.n

\* the sum of the widths of the first k reads that succeeded
RECURSIVE WidthsRead(_)
WidthsRead(k) ==
    IF k = 0 THEN 0
    ELSE WidthsRead(k - 1)
             + (IF reads[k].err = NoError THEN WidthOf(reads[k]) ELSE 0)

\* the read this step made
NewRead == reads'[Len(reads')]

\* the little-endian value of the w bytes at 0-based offset k
RECURSIVE LittleEndianAt(_, _)
LittleEndianAt(k, w) ==
    IF w = 0 THEN 0 ELSE data[k + 1] + 256 * LittleEndianAt(k + 1, w - 1)

\* C21: a typed read with enough bytes left succeeds, returns the bytes
\* under the cursor (as a little-endian integer for u8, u16 and u32) and
\* advances bytes_read by its width; with fewer bytes left it fails with the
\* I/O error and bytes_read stays; bytes_read is always the sum of the
\* widths of the reads that succeeded.
C21_ReadsAdvanceByWidth ==
    /\ [](pc = "reads" => reader.bytes_read = WidthsRead(Len(reads)))
    /\ [][Len(reads') = Len(reads) + 1 =>
             IF WidthOf(NewRead) <= Len(data) - reader.pos
             THEN /\ NewRead.err = NoError
                  /\ reader'.bytes_read = reader.bytes_read + WidthOf(NewRead)
                  /\ NewRead.op \in {"byte", "word", "dword"} =>
                         NewRead.val = LittleEndianAt(reader.pos, WidthOf(NewRead))
                  /\ NewRead.op \in {"double", "exact"} =>
                         NewRead.val = SubSeq(data, reader.pos + 1,
                                              reader.pos + WidthOf(NewRead))
             ELSE /\ NewRead.err = IoError
                  /\ reader'.bytes_read = reader.bytes_read]_vars

\* C21 witness: a u32 and a u16 were read, then an f64 fell short of the
\* four bytes left, and bytes_read is 6
C21_ShortReadAfterTwo ==
    /\ pc = "reads"
    /\ Len(data) = 10
    /\ Len(reads) = 3
    /\ reads[1].op = "dword" /\ reads[1].err = NoError
    /\ reads[2].op = "word" /\ reads[2].err = NoError
    /\ reads[3].op = "double" /\ reads[3].err = IoError
    /\ reader.bytes_read = 6

-----------------------------------------------------------------------------
(* C22 *)

\* the u32 at offset 8 of the input
VersionField == LittleEndianAt(8, 4)

\* C22: a document that parse returns has the version stored at offset 8
\* of the input, and no error that parse returns is UnsupportedVersion.
C22_VersionPropagated ==
    pc = "done" =>
        /\ result.kind = "Ok" => result.doc[1].version = VersionField
        /\ result.kind = "Err" => result.err[1].kind # UnsupportedVersion(0).kind

\* C22 witness: a file whose version field is 66136 was parsed into a
\* document of that version with its line
C22_WideVersionAccepted ==
    /\ pc = "done"
    /\ result.kind = "Ok"
    /\ VersionField = 66136
    /\ result.doc[1].version = 66136
    /\ Len(result.doc[1].entities) = 1

-----------------------------------------------------------------------------
(* A run of parse calls, one after the other.  What a call left in its     *)
(* locals stays there when it returns: a later call sees it unless its own *)
(* statements write over it first.                                         *)

MaxCalls == 3

\* a reference to pid 3 in a stream that binds pid 1 only; a stream that
\* binds pids 1 and 3; the minimal file; a file cut in the layer matrix; a
\* buffer without the signature
CallInputs ==
    {FileOf(600, <<0>>, Stream(2, <<NewRec("Sen"), RefRec(3, "Sen")>>, 600)),
     FileOf(600, <<0>>, Stream(4, <<NewRec("Sen"), NullRec, NewRec("Enko"),
                                    RefRec(32771, "Enko")>>, 600)),
     Minimal,
     Take(Minimal, 2388),
     <<115, 104, 111, 114, 116>>}

\* the caller calls parse once more
CallAgain == \E input \in CallInputs : Len(returned) < MaxCalls /\ Parse(input)

\* parse has returned its result to the caller
ReturnToCaller ==
    /\ pc = "done"
    /\ pc' = "idle"
    /\ returned' = Append(returned, [data |-> data, result |-> result])
    /\ UNCHANGED <<data, reader, header_vars, layer_groups, reader2, list_vars,
                   result, allocs, reads, parked, dxf>>

SerialNext ==
    \/ CallAgain
    \/ ReadHeader
    \/ ReadLayerGroups
    \/ Locate
    \/ BeginEntityList
    \/ ParseRecord
    \/ Assemble
    \/ ReturnToCaller

SerialSpec == Init /\ [][SerialNext]_vars

-----------------------------------------------------------------------------
(* C23 *)

\* C23: any two calls of parse on the same buffer returned the same result,
\* whatever calls ran before and between them.
C23_SameBufferSameResult ==
    \A i, j \in DOMAIN returned :
        returned[i].data = returned[j].data => returned[i].result = returned[j].result

\* C23 witness: the stream that refers to pid 3 was parsed before and after
\* a stream that binds pid 3, and failed with UnknownClassPid(3) both times
C23_AroundAnotherCall ==
    /\ Len(returned) = 3
    /\ returned[1].data = returned[3].data
    /\ returned[2].data # returned[1].data
    /\ returned[2].result.kind = "Ok"
    /\ Len(returned[2].result.doc[1].entities) = 3
    /\ returned[3].result = Err(UnknownClassPid(3))

-----------------------------------------------------------------------------
(* Two threads, each calling parse once on a buffer of its own.  The        *)
(* variables of a call are the locals of the thread that is running; the   *)
(* locals of the other thread are parked.  A switch may fall between any   *)
(* two steps.  When both calls have returned, each buffer is parsed once   *)
(* more with no other call about.                                          *)

\* the locals of the running call
Frame ==
    [pc |-> pc, data |-> data, reader |-> reader, version |-> version,
     memo |-> memo, paper_size |-> paper_size,
     write_layer_group |-> write_layer_group, layer_groups |-> layer_groups,
     reader2 |-> reader2, count |-> count, done_records |-> done_records,
     entities |-> entities, pid_to_class |-> pid_to_class, next_pid |-> next_pid,
     result |-> result, allocs |-> allocs, processed |-> processed]

\* the locals of a thread that has not called parse yet
IdleFrame ==
    [pc |-> "idle", data |-> <<>>, reader |-> Reader_new(0), version |-> 0,
     memo |-> <<>>, paper_size |-> 0, write_layer_group |-> 0,
     layer_groups |-> <<>>, reader2 |-> Reader_new(0), count |-> 0,
     done_records |-> 0, entities |-> <<>>, pid_to_class |-> <<>>,
     next_pid |-> 0, result |-> NoResult, allocs |-> <<>>, processed |-> <<>>]

\* threads that share one class table and one next_pid
Load_mut(f) ==
    /\ pc' = f.pc /\ data' = f.data /\ reader' = f.reader
    /\ version' = f.version /\ memo' = f.memo /\ paper_size' = f.paper_size
    /\ write_layer_group' = f.write_layer_group
    /\ layer_groups' = f.layer_groups
    /\ reader2' = f.reader2 /\ count' = f.count /\ done_records' = f.done_records
    /\ entities' = f.entities
    /\ UNCHANGED <<pid_to_class, next_pid>>
    /\ result' = f.result /\ allocs' = f.allocs /\ processed' = f.processed

\* the thread whose locals are f runs
Load(f) ==
    /\ pc' = f.pc /\ data' = f.data /\ reader' = f.reader
    /\ version' = f.version /\ memo' = f.memo /\ paper_size' = f.paper_size
    /\ write_layer_group' = f.write_layer_group
    /\ layer_groups' = f.layer_groups
    /\ reader2' = f.reader2 /\ count' = f.count /\ done_records' = f.done_records
    /\ entities' = f.entities
    /\ pid_to_class' = f.pid_to_class /\ next_pid' = f.next_pid
    /\ result' = f.result /\ allocs' = f.allocs /\ processed' = f.processed

ThreadsInit ==
    /\ pc = "idle"
    /\ data = <<>>
    /\ reader = Reader_new(0)
    /\ version = 0 /\ memo = <<>> /\ paper_size = 0 /\ write_layer_group = 0
    /\ layer_groups = <<>>
    /\ reader2 = Reader_new(0)
    /\ count = 0 /\ done_records = 0 /\ entities = <<>>
    /\ pid_to_class = <<>> /\ next_pid = 0
    /\ result = NoResult
    /\ allocs = <<>>
    /\ processed = <<>>
    /\ reads = <<>> /\ returned = <<>> /\ dxf = <<>>
    /\ parked = <<IdleFrame>>

\* the buffers of the calls that returned while the two threads ran, and of
\* those that returned afterwards
BuffersOf(alone) ==
    {returned[i].data : i \in {k \in DOMAIN returned : returned[k].alone = alone}}

\* both threads' calls have returned
ThreadsDone == Cardinality(BuffersOf(FALSE)) = 2

\* a thread calls parse on a buffer no other call of the two is given; once
\* both have returned, a buffer of theirs is parsed again
ThreadCall ==
    \E input \in CallInputs :
        /\ IF ThreadsDone
           THEN input \in BuffersOf(FALSE) \ BuffersOf(TRUE)
           ELSE input \notin BuffersOf(FALSE) \cup {parked[k].data : k \in DOMAIN parked}
        /\ Parse(input)

\* the scheduler takes the running thread off and puts the other one on
Switch ==
    /\ parked # <<>>
    /\ Load(parked[1])
    /\ parked' = <<Frame>>
    /\ UNCHANGED <<reads, returned, dxf>>

\* parse returns to its thread, which ends; the other thread, if it has not
\* ended, runs
ThreadReturn ==
    /\ pc = "done"
    /\ returned' = Append(returned,
           [data |-> data, result |-> result, alone |-> ThreadsDone])
    /\ IF parked # <<>>
       THEN Load(parked[1]) /\ parked' = <<>>
       ELSE Load([Frame EXCEPT !.pc = "idle"]) /\ UNCHANGED parked
    /\ UNCHANGED <<reads, dxf>>

ThreadsNext ==
    \/ ThreadCall
    \/ ReadHeader
    \/ ReadLayerGroups
    \/ Locate
    \/ BeginEntityList
    \/ ParseRecord
    \/ Assemble
    \/ Switch
    \/ ThreadReturn

ThreadsSpec == ThreadsInit /\ [][ThreadsNext]_vars

-----------------------------------------------------------------------------
(* C24 *)

\* C24: a call that ran while the other thread's call could run returned
\* what the call on the same buffer returned with no other call about, and
\* the two threads were never given the same buffer.
C24_ConcurrentAsAlone ==
    /\ \A i, j \in DOMAIN returned :
           (~returned[i].alone /\ returned[j].alone
                /\ returned[i].data = returned[j].data)
               => returned[i].result = returned[j].result
    /\ \A k \in DOMAIN parked : pc # "idle" /\ parked[k].pc # "idle" =>
           parked[k].data # data

\* C24 witness: both calls are in their record loops, one having bound pids
\* 1 and 3 and the other pid 1 only and about to resolve pid 3
C24_BothInRecordLoop ==
    /\ parked # <<>>
    /\ pc = "records" /\ parked[1].pc = "records"
    /\ DOMAIN pid_to_class = {1} /\ done_records = 1 /\ NextClassId = 3
    /\ DOMAIN parked[1].pid_to_class = {1, 3}

-----------------------------------------------------------------------------
(* The DXF converter (jww-dxf/src/converter.rs) and Entity::type_name      *)
(* (jww-core/src/types.rs).  A static string is a TLA+ string; a String    *)
(* built at run time is the sequence of its code points.  The result of    *)
(* floating-point arithmetic is the term that computes it.                 *)

F64_2_5 == <<0, 0, 0, 0, 0, 0, 4, 64>>

\* format!("{:X}", n)
RECURSIVE format_X(_)
format_X(n) == IF n < 16 THEN HexUpper(n) ELSE format_X(n \div 16) \o HexUpper(n % 16)

\* format!("{}", n)
RECURSIVE format_decimal(_)
format_decimal(n) ==
    IF n < 10 THEN <<48 + n>> ELSE format_decimal(n \div 10) \o <<48 + (n % 10)>>

BlockPrefix == <<66, 76, 79, 67, 75, 95>>     \* "BLOCK_"

\* x is a NaN: exponent all ones, fraction not zero
F64IsNaN(x) ==
    /\ x[8] % 128 = 127 /\ x[7] >= 240
    /\ (x[7] % 16 # 0 \/ \E k \in 1 .. 6 : x[k] # 0)

\* x <= 0.0
F64LeZero(x) ==
    /\ ~F64IsNaN(x)
    /\ (x[8] >= 128 \/ (x[8] = 0 /\ \A k \in 1 .. 7 : x[k] = 0))

rad_to_deg(rad) == [fn |-> "rad_to_deg", of |-> <<rad>>]

F64Add(a, b) == [fn |-> "add", of |-> <<a, b>>]

map_color(jww_color) ==
    CASE jww_color = 0 -> 0
      [] jww_color = 1 -> 4
      [] jww_color = 2 -> 7
      [] jww_color = 3 -> 3
      [] jww_color = 4 -> 2
      [] jww_color = 5 -> 6
      [] jww_color = 6 -> 5
      [] jww_color = 7 -> 7
      [] jww_color = 8 -> 1
      [] jww_color = 9 -> 8
      [] OTHER -> IF jww_color >= 100 THEN jww_color - 100 + 10 ELSE jww_color

map_line_type(pen_style) ==
    CASE pen_style \in {0, 1} -> "CONTINUOUS"
      [] pen_style = 2 -> "DASHED"
      [] pen_style = 3 -> "DASHDOT"
      [] pen_style = 4 -> "CENTER"
      [] pen_style = 5 -> "DOT"
      [] pen_style = 6 -> "DASHEDX2"
      [] pen_style = 7 -> "DASHDOTX2"
      [] pen_style = 8 -> "CENTERX2"
      [] pen_style = 9 -> "DOTX2"
      [] OTHER -> "CONTINUOUS"

\* a layer table laid out layer-major
convert_layers_mut(jww_doc) ==
    [i \in 1 .. NumLayerGroups * NumLayers |->
        [name |-> jww_doc.layer_groups[(i - 1) % 16].layers[(i - 1) \div 16].name,
         color |-> ((i - 1) % 255) + 1,
         line_type |-> "CONTINUOUS",
         frozen |-> jww_doc.layer_groups[(i - 1) % 16].layers[(i - 1) \div 16].state = 0,
         locked |-> jww_doc.layer_groups[(i - 1) % 16].layers[(i - 1) \div 16].protect # 0]]

\* the layer pushed for cell (g_lay, lay) (converter.rs:26-39)
LayerOf(l, g_lay, lay) ==
    [name |-> IF l.name = <<>> THEN format_X(g_lay) \o Dash \o format_X(lay)
              ELSE l.name,
     color |-> ((g_lay * 16 + lay) % 255) + 1,
     line_type |-> "CONTINUOUS",
     frozen |-> (l.state = 0),
     locked |-> (l.protect # 0)]

\* the pushes of the two nested loops, in order
convert_layers(jww_doc) ==
    [i \in 1 .. NumLayerGroups * NumLayers |->
        LayerOf(jww_doc.layer_groups[(i - 1) \div 16].layers[(i - 1) % 16],
                (i - 1) \div 16, (i - 1) % 16)]

get_layer_name(jww_doc, layer_group, layer) ==
    IF layer_group < 16 /\ layer < 16
           /\ jww_doc.layer_groups[layer_group].layers[layer].name # <<>>
    THEN jww_doc.layer_groups[layer_group].layers[layer].name
    ELSE format_X(layer_group) \o Dash \o format_X(layer)

\* the name of the first block definition numbered def_number, if it has
\* one
get_block_name(jww_doc, def_number) ==
    IF \E k \in DOMAIN jww_doc.block_defs :
           /\ jww_doc.block_defs[k].number = def_number
           /\ jww_doc.block_defs[k].name # <<>>
           /\ \A j \in 1 .. k - 1 : jww_doc.block_defs[j].number # def_number
    THEN jww_doc.block_defs[
             CHOOSE k \in DOMAIN jww_doc.block_defs :
                 /\ jww_doc.block_defs[k].number = def_number
                 /\ \A j \in 1 .. k - 1 : jww_doc.block_defs[j].number # def_number].name
    ELSE BlockPrefix \o format_decimal(def_number)

\* layer, color and line type of every DXF entity (converter.rs:61-64)
Drawn(type, e, jww_doc) ==
    [type |-> type,
     layer |-> get_layer_name(jww_doc, e.base.layer_group, e.base.layer),
     color |-> map_color(e.base.pen_color),
     line_type |-> map_line_type(e.base.pen_style)]

\* the Arc arm (converter.rs:77-160); the axes, ratio and parameters of an
\* ellipse are floating-point results and are left out
convert_arc(arc, jww_doc) ==
    IF arc.is_full_circle /\ arc.flatness = F64_1
    THEN Drawn("Circle", arc, jww_doc)
             @@ [center_x |-> arc.center_x, center_y |-> arc.center_y,
                 radius |-> arc.radius]
    ELSE IF arc.flatness # F64_1
    THEN Drawn("Ellipse", arc, jww_doc)
             @@ [center_x |-> arc.center_x, center_y |-> arc.center_y]
    ELSE Drawn("Arc", arc, jww_doc)
             @@ [center_x |-> arc.center_x, center_y |-> arc.center_y,
                 radius |-> arc.radius,
                 start_angle |-> rad_to_deg(arc.start_angle),
                 end_angle |-> rad_to_deg(F64Add(arc.start_angle, arc.arc_angle))]

convert_entity(e, jww_doc) ==
    CASE e.type = "Line" ->
             Some(Drawn("Line", e, jww_doc)
                      @@ [x1 |-> e.start_x, y1 |-> e.start_y,
                          x2 |-> e.end_x, y2 |-> e.end_y])
      [] e.type = "Arc" -> Some(convert_arc(e, jww_doc))
      [] e.type = "Point" ->
             IF e.is_temporary THEN None
             ELSE Some(Drawn("Point", e, jww_doc) @@ [x |-> e.x, y |-> e.y])
      [] e.type = "Text" ->
             Some(Drawn("Text", e, jww_doc)
                      @@ [x |-> e.start_x, y |-> e.start_y,
                          height |-> IF F64LeZero(e.size_y) THEN F64_2_5 ELSE e.size_y,
                          rotation |-> e.angle, content |-> e.content,
                          style |-> "STANDARD"])
      [] e.type = "Solid" ->
             Some(Drawn("Solid", e, jww_doc)
                      @@ [x1 |-> e.point1_x, y1 |-> e.point1_y,
                          x2 |-> e.point2_x, y2 |-> e.point2_y,
                          x3 |-> e.point3_x, y3 |-> e.point3_y,
                          x4 |-> e.point4_x, y4 |-> e.point4_y])
      [] e.type = "Block" ->
             Some(Drawn("Insert", e, jww_doc)
                      @@ [block_name |-> get_block_name(jww_doc, e.def_number),
                          x |-> e.ref_x, y |-> e.ref_y,
                          scale_x |-> e.scale_x, scale_y |-> e.scale_y,
                          rotation |-> rad_to_deg(e.rotation)])

\* what the loop over `es` pushes
convert_each(es, jww_doc) ==
    Flatten([i \in DOMAIN es |-> convert_entity(es[i], jww_doc)])

convert_entities(jww_doc) == convert_each(jww_doc.entities, jww_doc)

convert_blocks(jww_doc) ==
    [k \in DOMAIN jww_doc.block_defs |->
        [name |-> jww_doc.block_defs[k].name, base_x |-> F64_0, base_y |-> F64_0,
         entities |-> convert_each(jww_doc.block_defs[k].entities, jww_doc)]]

convert_document(jww_doc) ==
    [layers |-> convert_layers(jww_doc),
     entities |-> convert_entities(jww_doc),
     blocks |-> convert_blocks(jww_doc)]

\* Entity::type_name (types.rs:127-143)
type_name(e) ==
    CASE e.type = "Line"  -> "LINE"
      [] e.type = "Arc"   -> IF e.is_full_circle THEN "CIRCLE" ELSE "ARC"
      [] e.type = "Point" -> "POINT"
      [] e.type = "Text"  -> "TEXT"
      [] e.type = "Solid" -> "SOLID"
      [] e.type = "Block" -> "BLOCK"

\* the caller of parse hands the document to convert_document and asks each
\* entity for its type name; `each` is what convert_entity gave per entity
Converted(jww_doc) ==
    [document |-> convert_document(jww_doc),
     each |-> [i \in DOMAIN jww_doc.entities |->
                  convert_entity(jww_doc.entities[i], jww_doc)],
     type_names |-> [i \in DOMAIN jww_doc.entities |-> type_name(jww_doc.entities[i])]]

Convert ==
    /\ pc = "done"
    /\ result.kind = "Ok"
    /\ pc' = "converted"
    /\ dxf' = <<Converted(result.doc[1])>>
    /\ UNCHANGED <<data, reader, header_vars, layer_groups, reader2, list_vars,
                   result, allocs, reads, returned, parked>>

ConvertNext ==
    \/ \E input \in Inputs : Parse(input)
    \/ ReadHeader
    \/ ReadLayerGroups
    \/ Locate
    \/ BeginEntityList
    \/ ParseRecord
    \/ Assemble
    \/ Convert

ConvertSpec == Init /\ [][ConvertNext]_vars

-----------------------------------------------------------------------------
(* C25 *)

\* the parsed document that was converted
ParsedDoc == result.doc[1]

\* C25: the DXF document of a parsed document has 256 layers, the layer of
\* cell (g, l) at index 16 g + l under the cell's name, and as many blocks
\* as the document has block definitions, which is none.
C25_LayerTable ==
    pc = "converted" =>
        /\ Len(dxf[1].document.layers) = 256
        /\ \A g \in 0 .. 15 : \A l \in 0 .. 15 :
               dxf[1].document.layers[16 * g + l + 1].name
                   = ParsedDoc.layer_groups[g].layers[l].name
        /\ Len(dxf[1].document.blocks) = Len(ParsedDoc.block_defs)
        /\ Len(dxf[1].document.blocks) = 0

\* C25 witness: the minimal file of the tests was converted: 256 layers,
\* "0-0" first, "1-0" at index 16 and "F-F" last, no entity, no block
C25_MinimalConverted ==
    /\ pc = "converted"
    /\ data = Minimal
    /\ Len(dxf[1].document.layers) = 256
    /\ dxf[1].document.layers[1].name = <<48, 45, 48>>
    /\ dxf[1].document.layers[17].name = <<49, 45, 48>>
    /\ dxf[1].document.layers[256].name = <<70, 45, 70>>
    /\ dxf[1].document.entities = <<>>
    /\ dxf[1].document.blocks = <<>>

-----------------------------------------------------------------------------
(* C26 *)

\* C26: a decoded record that defines a class binds the class name at the
\* current next_pid and leaves next_pid two higher; a decoded back-reference
\* leaves it one higher and the table as it was; so when the first two
\* records both define a class, the classes are bound at pids 1 and 3.
C26_PidAdvance ==
    /\ [][(RecordStep /\ pc' = "records") =>
             /\ NextClassId = 65535 =>
                    /\ next_pid' = next_pid + 2
                    /\ next_pid \in DOMAIN pid_to_class'
                    /\ pid_to_class'[next_pid] = ClassUnderCursor
             /\ NextClassId \notin {65535, 32768} =>
                    /\ next_pid' = next_pid + 1
                    /\ pid_to_class' = pid_to_class]_vars
    /\ []((/\ pc = "records"
           /\ Len(processed) >= 2
           /\ processed[1].class_id = 65535
           /\ processed[2].class_id = 65535) =>
              /\ {1, 3} \subseteq DOMAIN pid_to_class
              /\ pid_to_class[1] = processed[1].class_name
              /\ pid_to_class[3] = processed[2].class_name)

\* C26 witness: two class definitions and a back-reference to each were
\* decoded: the classes are bound at pids 1 and 3 and next_pid is 7
C26_TwoDefinitionsTwoReferences ==
    /\ pc = "records"
    /\ Len(processed) = 4
    /\ processed[1].class_id = 65535 /\ processed[2].class_id = 65535
    /\ processed[3].class_id = 32769 /\ processed[4].class_id = 32771
    /\ pid_to_class = (1 :> CDataSen) @@ (3 :> CDataEnko)
    /\ next_pid = 7

-----------------------------------------------------------------------------
(* C27 *)

\* C27: when the entity cursor is created, it starts at or after the byte
\* where the header cursor stopped.
C27_StreamAfterHeader ==
    pc = "list" => reader2.pos >= reader.pos

-----------------------------------------------------------------------------
(* C28 *)

\* the names of the layer table of the DXF document
LayerTableNames ==
    {dxf[1].document.layers[i].name : i \in DOMAIN dxf[1].document.layers}

\* C28: every entity of the DXF document is on a layer that the layer
\* table of the same document defines.
C28_EntityLayersDefined ==
    pc = "converted" =>
        \A i \in DOMAIN dxf[1].document.entities :
            dxf[1].document.entities[i].layer \in LayerTableNames

-----------------------------------------------------------------------------
(* C29 *)

\* C29: for every Arc of the parsed document, type_name is "CIRCLE" exactly
\* when the converter made a DXF Circle of it, and "ARC" otherwise.
C29_TypeNameAgrees ==
    pc = "converted" =>
        \A i \in DOMAIN ParsedDoc.entities :
            ParsedDoc.entities[i].type = "Arc" =>
                dxf[1].type_names[i]
                    = (IF dxf[1].each[i][1].type = "Circle" THEN "CIRCLE" ELSE "ARC")

-----------------------------------------------------------------------------
(* C30 *)

\* the first record of the entity list is about to be read
AtFirstRecord == pc = "records" /\ count >= 1 /\ processed = <<>>

\* the name_len word and the name bytes of a class definition under the
\* entity cursor
NameLenUnderCursor == WordAt(reader2.pos + 4)

NameUnderCursor ==
    SubSeq(data, reader2.pos + 7, reader2.pos + 6 + NameLenUnderCursor)

\* C30: when the locator succeeded and the count is at least 1, the first
\* record is a class definition: class_id 0xFFFF, the schema word equal to
\* the low 16 bits of the version, a name of 8 to 20 bytes that lie in the
\* buffer and start with "CData"; it is not taken as a null object and does
\* not fail with UnknownClassPid.
C30_FirstRecordDefinesClass ==
    /\ AtFirstRecord =>
           /\ NextClassId = 65535
           /\ WordAt(reader2.pos + 2) = version % 65536
           /\ NameLenUnderCursor \in 8 .. 20
           /\ reader2.pos + 6 + NameLenUnderCursor <= Len(data)
           /\ StartsWith(NameUnderCursor, CData)
    /\ (pc \in {"records", "done"} /\ processed # <<>>) =>
           /\ processed[1].class_id = 65535
           /\ StartsWith(processed[1].class_name, CData)
           /\ (pc = "done" /\ result.kind = "Err") =>
                  result.err[1].kind # UnknownClassPid(0).kind \/ Len(processed) > 1

\* C30 witness: the class definition of schema 601 in the memo was passed
\* over and the first record read is the line after the layer matrix
C30_DecoyPassedOver ==
    /\ pc = "records"
    /\ count = 1
    /\ Len(processed) = 1
    /\ processed[1].class_id = 65535
    /\ processed[1].outcome = "entity"
    /\ WordAt(102) = 601
    /\ reader2.pos > reader.pos

=============================================================================
